---- MODULE Spec2Model ----
(***************************************************************************)
(* A model of the build-graph generator of dbt-rules (RULES/core): the     *)
(* flag registry (flags.go), the build context (context.go, both the       *)
(* rule-based context and the earlier context that has Built) and          *)
(* GeneratorMain (util.go).                                                *)
(*                                                                         *)
(* Strings that the code sorts, joins, escapes or checksums are sequences  *)
(* of byte values; labels that are only compared for equality are TLA+     *)
(* strings.  A Path value is represented by the string its Absolute()      *)
(* method returns.                                                         *)
(***************************************************************************)
EXTENDS Integers, Sequences, FiniteSets, TLC

\* ------------------------------------------------------------------------
\* Bounds of the model
\* ------------------------------------------------------------------------

\* The number of AddBuildStep / AddBuildStepWithRule calls in one run.
MaxCalls == 2

\* ------------------------------------------------------------------------
\* Generic helpers
\* ------------------------------------------------------------------------

Range(s) == {s[i] : i \in DOMAIN s}

\* Every order in which a Go map with key set S may be iterated.
Perms(S) == {f \in [1..Cardinality(S) -> S] : Range(f) = S}

\* Go's string comparison: bytewise lexicographic.
RECURSIVE LessStr(_, _)
LessStr(a, b) ==
    IF b = <<>> THEN FALSE
    ELSE IF a = <<>> THEN TRUE
    ELSE IF a[1] # b[1] THEN a[1] < b[1]
    ELSE LessStr(Tail(a), Tail(b))

RECURSIVE InsertSorted(_, _)
InsertSorted(x, s) ==
    IF s = <<>> THEN <<x>>
    ELSE IF LessStr(s[1], x) THEN <<s[1]>> \o InsertSorted(x, Tail(s))
    ELSE <<x>> \o s

\* sort.Strings left out: the strings stay in the order they came in
KeepOrder(s) == s

\* sort.Strings
RECURSIVE SortStrings(_)
SortStrings(s) ==
    IF s = <<>> THEN <<>> ELSE InsertSorted(s[1], SortStrings(Tail(s)))

\* strings.Join(parts, sep)
RECURSIVE Join(_, _)
Join(parts, sep) ==
    IF parts = <<>> THEN <<>>
    ELSE IF Len(parts) = 1 THEN parts[1]
    ELSE parts[1] \o sep \o Join(Tail(parts), sep)

\* strings.ReplaceAll(s, " ", "$ ")
RECURSIVE ninjaEscape(_)
ninjaEscape(s) ==
    IF s = <<>> THEN <<>>
    ELSE (IF s[1] = 32 THEN <<36, 32>> ELSE <<s[1]>>) \o ninjaEscape(Tail(s))

\* unicode.IsUpper on the first byte of an ASCII name
IsUpper(s) == s # <<>> /\ s[1] >= 65 /\ s[1] <= 90

\* path.Base of a path that does not end in a slash
RECURSIVE Base(_)
Base(s) ==
    IF \E i \in DOMAIN s : s[i] = 47
    THEN Base(Tail(s))
    ELSE s

\* f applied to every element of a sequence
MapSeq(f(_), s) == [i \in DOMAIN s |-> f(s[i])]

\* A Go map as a function; lookup of a missing key yields the zero value "".
MapGet(m, k) == IF k \in DOMAIN m THEN m[k] ELSE <<>>

EmptyMap == [k \in {} |-> <<>>]

\* ------------------------------------------------------------------------
\* The inputs the model draws from
\* ------------------------------------------------------------------------

pa == <<47, 97>>            \* "/a"
pb == <<47, 98>>            \* "/b"
pcd == <<47, 99, 32, 100>>  \* "/c d"
WorkingDir == <<47>>        \* input.WorkingDir: "/"
cmd1 == <<99, 49>>      \* "c1"
cmd2 == <<99, 50>>      \* "c2"
descr == <<100>>        \* "d"
kCommand == <<99, 111, 109, 109, 97, 110, 100>>                       \* "command"
kDescription == <<100, 101, 115, 99, 114, 105, 112, 116, 105, 111, 110>> \* "description"
kDepfile == <<100, 101, 112, 102, 105, 108, 101>>                     \* "depfile"
kPool == <<112, 111, 111, 108>>                                       \* "pool"
tA == <<65>>            \* target "A": exported
tb == <<98>>            \* target "b": private

\* ------------------------------------------------------------------------
\* hash/crc32 and the formatting of a checksum (a 32-bit value is the set of the
\* positions of its one bits, 0 the least significant)
\* ------------------------------------------------------------------------

Bits32 == 0..31

\* 0xEDB88320, the reversed IEEE polynomial, as hexadecimal digits
PolyHex == <<14, 13, 11, 8, 8, 3, 2, 0>>

NibbleBit(n, j) == (n \div (2 ^ j)) % 2

Poly == {i \in Bits32 : NibbleBit(PolyHex[8 - (i \div 4)], i % 4) = 1}

Xor32(x, y) == {i \in Bits32 : (i \in x) # (i \in y)}

Shr1(x) == {i - 1 : i \in x \ {0}}

ByteBits(b) == {i \in 0..7 : NibbleBit(b, i) = 1}

AllOnes == Bits32

RECURSIVE CrcShift(_, _)
CrcShift(crc, n) ==
    IF n = 0 THEN crc
    ELSE IF 0 \in crc THEN CrcShift(Xor32(Shr1(crc), Poly), n - 1)
    ELSE CrcShift(Shr1(crc), n - 1)

RECURSIVE CrcUpdate(_, _)
CrcUpdate(crc, s) ==
    IF s = <<>> THEN crc
    ELSE CrcShift(Xor32(CrcUpdate(crc, SubSeq(s, 1, Len(s) - 1)), ByteBits(s[Len(s)])), 8)

\* crc32.ChecksumIEEE
ChecksumIEEE(s) == Xor32(CrcUpdate(AllOnes, s), AllOnes)

HexDigit(n) == IF n < 10 THEN 48 + n ELSE 55 + n

\* The hexadecimal digit d of h, counted from the least significant one
Nibble(h, d) ==
    (IF 4 * d + 3 \in h THEN 8 ELSE 0) + (IF 4 * d + 2 \in h THEN 4 ELSE 0)
    + (IF 4 * d + 1 \in h THEN 2 ELSE 0) + (IF 4 * d \in h THEN 1 ELSE 0)

\* fmt.Sprintf("%08X", hash)
Hex8(h) == [d \in 1..8 |-> HexDigit(Nibble(h, 8 - d))]

\* strconv.Itoa for a number below 100
Itoa(n) == IF n < 10 THEN <<48 + n>> ELSE <<48 + (n \div 10), 48 + (n % 10)>>


\* ------------------------------------------------------------------------
\* State
\* ------------------------------------------------------------------------

VARIABLES
    completionsOnly, \* input.CompletionsOnly
    exited,          \* os.Exit(1) has been called
    fatalMsg,        \* the diagnostic of the Fatal call that exited
    pc,              \* where GeneratorMain is
    targetPaths,     \* GeneratorMain: the sorted target paths
    nextTarget,      \* GeneratorMain: index of the next target to handle
    currentTarget,   \* util.go: currentTarget
    trace,           \* context.trace
    scopes,          \* history: the WithTrace calls that have not returned
    leafOutputs,     \* context.leafOutputs (the frontier), a set of paths
    steps,           \* the BuildStepWithRule objects that buildSteps points to
    buildSteps,      \* context.buildSteps: output path -> index into steps
    targetRules,     \* context.targetRules
    dataFiles,       \* the files written to the DATA directory
    ninjaText,       \* output.NinjaFile
    outputWritten,   \* output.json has been written
    ncalls,          \* number of AddBuildStep/AddBuildStepWithRule calls so far
    targetLog,       \* history: the steps registered while the current target is processed
    last,            \* history: the last context operation and its argument
    \* -- the context without build rules (the earlier context.go) --
    context,         \* the context struct: leafOutputs, buildOutputs, ninjaFile, ...
    dataDir,         \* the files its AddBuildStep wrote to the DATA directory
    legacyPc,        \* where the earlier GeneratorMain is
    varsOrder,       \* the order in which that GeneratorMain ranges over vars
    varsNext,        \* index of the next entry of varsOrder to handle
    legacyCalls,     \* number of Built/AddBuildStep calls so far
    builtLog,        \* history: the Built calls so far, with their results
    libraries,       \* cc: the Library values that the build files declare
    buildCalls,      \* cc: the calls of Library.build that have not returned
    \* -- the flag registry (flags.go) --
    cmdlineFlags,    \* flags.go: cmdlineFlags
    configFileFlags, \* flags.go: configFileFlags
    flagObjects,     \* the StringFlag variables of the build files
    registeredFlags, \* flags.go: registeredFlags
    flagsLocked,     \* flags.go: flagsLocked
    buildDirSuffix,  \* buildDirSuffix
    configFile,      \* the content of ../FLAGS.json
    flagTable,       \* output.Flags
    flagPc,          \* where the registry's run is
    flagOps,         \* number of Register/Value calls so far
    lastFlag,        \* history: the last registry operation
    prevRun          \* history: what the run before this one has locked

legacyVars == <<context, dataDir, legacyPc, varsOrder, varsNext, legacyCalls, builtLog,
                libraries, buildCalls>>

flagVars == <<cmdlineFlags, configFileFlags, flagObjects, registeredFlags, flagsLocked,
              buildDirSuffix, configFile, flagTable, flagPc, flagOps, lastFlag, prevRun>>

engineVars == <<pc, targetPaths, nextTarget, currentTarget, trace, scopes, leafOutputs,
                steps, buildSteps, targetRules, dataFiles, ninjaText,
                outputWritten, ncalls, targetLog, last>>

processVars == <<completionsOnly, exited, fatalMsg>>

vars == <<processVars, engineVars, legacyVars, flagVars>>

\* ------------------------------------------------------------------------
\* Process: Fatal
\* ------------------------------------------------------------------------

\* A Fatal that returns to its caller in every run
FatalNeverExits == FALSE

\* Fatal returns to its caller when the input asks for completions only, and
\* prints the diagnostic and exits otherwise.
FatalExits == ~completionsOnly

\* The state after a Fatal call that exits: nothing else changes any more.
Exit(msg) ==
    /\ exited' = TRUE
    /\ fatalMsg' = msg
    /\ pc' = "exit"
    /\ UNCHANGED completionsOnly

Running == ~exited

\* ------------------------------------------------------------------------
\* The targets of the build (the vars map handed to GeneratorMain)
\* ------------------------------------------------------------------------

TargetNames == {tA, tb}

\* the optional interfaces a target implements
Runnable(t) == t = tA
Testable(t) == t = tA

\* ------------------------------------------------------------------------
\* Build steps
\* ------------------------------------------------------------------------

NoPath == <<0>>   \* a nil Path / OutPath

BuildRule(name, variables) == [Name |-> name, Variables |-> variables]

BuildStepWithRule(outs, ins, orderDeps, variables, rule) ==
    [Outs |-> outs, Ins |-> ins, OrderDeps |-> orderDeps,
     Variables |-> variables, Rule |-> rule, traces |-> <<>>]

\* BuildStep.outs()
StepOuts(step) == IF step.Out = NoPath THEN step.Outs ELSE Append(step.Outs, step.Out)

\* BuildStep.ins()
StepIns(step) == IF step.In = NoPath THEN step.Ins ELSE Append(step.Ins, step.In)

\* stepsAreEquivalent without its comparison of the inputs
stepsAreEquivalentSkippingIns(a, b) ==
    IF Len(a.Outs) # Len(b.Outs) THEN "different number of outputs"
    ELSE IF \E i \in DOMAIN a.Outs : a.Outs[i] # b.Outs[i] THEN "different output"
    ELSE IF a.Rule.Name # b.Rule.Name THEN "different build rule"
    ELSE IF a.Rule.Variables # b.Rule.Variables THEN "different variables in build rule"
    ELSE ""

\* stepsAreEquivalent: "" stands for a nil error
stepsAreEquivalent(a, b) ==
    IF Len(a.Ins) # Len(b.Ins) THEN "different number of inputs"
    ELSE IF \E i \in DOMAIN a.Ins : a.Ins[i] # b.Ins[i] THEN "different input"
    ELSE IF Len(a.Outs) # Len(b.Outs) THEN "different number of outputs"
    ELSE IF \E i \in DOMAIN a.Outs : a.Outs[i] # b.Outs[i] THEN "different output"
    ELSE IF Cardinality(DOMAIN a.Variables) # Cardinality(DOMAIN b.Variables)
        THEN "different number of variables"
    ELSE IF \E name \in DOMAIN a.Variables : a.Variables[name] # MapGet(b.Variables, name)
        THEN "different value for variable"
    ELSE IF a.Rule.Name # b.Rule.Name THEN "different build rule"
    ELSE IF Cardinality(DOMAIN a.Rule.Variables) # Cardinality(DOMAIN b.Rule.Variables)
        THEN "different number of variables in build rule"
    ELSE IF \E name \in DOMAIN a.Rule.Variables :
                a.Rule.Variables[name] # MapGet(b.Rule.Variables, name)
        THEN "different value for of variable in build rule"
    ELSE ""

\* The two loops that end AddBuildStepWithRule: every output joins the
\* frontier, then every input leaves it.
UpdateLeafOutputs(leaf, step) == (leaf \cup Range(step.Outs)) \ Range(step.Ins)

\* The body of AddBuildStepWithRule, for the call recorded as `op` with
\* argument `arg`.
RegisterStep(step, op, arg) ==
    IF Len(step.Outs) = 0
    THEN /\ last' = [op |-> op, arg |-> arg, result |-> "dropped"]
         /\ UNCHANGED <<processVars, pc, leafOutputs, steps, buildSteps, targetLog>>
    ELSE LET key == step.Outs[1] IN
         IF key \in DOMAIN buildSteps
         THEN LET prev == buildSteps[key] IN
              IF stepsAreEquivalent(step, steps[prev]) # "" /\ FatalExits
              THEN /\ Exit("Second incompatible build step for output")
                   /\ last' = [op |-> op, arg |-> arg, result |-> "fatal"]
                   /\ UNCHANGED <<leafOutputs, steps, buildSteps, targetLog>>
              ELSE /\ steps' = [steps EXCEPT ![prev].traces = Append(@, trace)]
                   /\ leafOutputs' = UpdateLeafOutputs(leafOutputs, step)
                   /\ targetLog' = Append(targetLog, step)
                   /\ last' = [op |-> op, arg |-> arg, result |-> "merged"]
                   /\ UNCHANGED <<processVars, pc, buildSteps>>
         ELSE /\ steps' = Append(steps, [step EXCEPT !.traces = Append(@, trace)])
              /\ buildSteps' =
                    [out \in DOMAIN buildSteps \cup Range(step.Outs) |->
                        IF out \in Range(step.Outs) THEN Len(steps) + 1
                        ELSE buildSteps[out]]
              /\ leafOutputs' = UpdateLeafOutputs(leafOutputs, step)
              /\ targetLog' = Append(targetLog, step)
              /\ last' = [op |-> op, arg |-> arg, result |-> "registered"]
              /\ UNCHANGED <<processVars, pc>>

\* The steps a target's Build may hand to AddBuildStepWithRule
OutsChoices == {<<>>, <<pa>>, <<pb>>, <<pa, pcd>>, <<pb, pa>>}
InsChoices == {<<>>, <<pa>>}
Rule1 == BuildRule(<<>>, (kCommand :> cmd1) @@ (kDescription :> descr))
Rule2 == BuildRule(<<>>, (kCommand :> cmd2) @@ (kDescription :> descr))

StepChoices ==
    {BuildStepWithRule(o, i, <<>>, EmptyMap, Rule1) : o \in OutsChoices, i \in InsChoices}
    \cup {BuildStepWithRule(<<pa>>, <<>>, <<>>, EmptyMap, Rule2)}

\* context.AddBuildStepWithRule
AddBuildStepWithRule(step) ==
    /\ Running /\ pc = "building" /\ ncalls < MaxCalls
    /\ UNCHANGED <<legacyVars, flagVars>>
    /\ ncalls' = ncalls + 1
    /\ RegisterStep(step, "AddBuildStepWithRule", step)
    /\ UNCHANGED <<targetPaths, nextTarget, currentTarget, trace, scopes, targetRules,
                   dataFiles, ninjaText, outputWritten>>

\* The BuildStep values a target's Build may hand to AddBuildStep.  OutsNil
\* tells a nil Outs from an empty one.
BuildStep(out, outs, outsNil, in, cmd, script, data) ==
    [Out |-> out, Outs |-> outs, OutsNil |-> outsNil, In |-> in, Ins |-> <<>>,
     Depfile |-> NoPath, Cmd |-> cmd, Script |-> script, Data |-> data,
     DataFileMode |-> 0, Descr |-> descr]

script1 == <<115>>    \* "s"
data1 == <<100>>      \* "d"

PayloadChoices ==
    {<<cmd1, <<>>, <<>>>>, <<<<>>, script1, <<>>>>, <<<<>>, <<>>, data1>>,
     <<cmd1, script1, <<>>>>, <<cmd1, <<>>, data1>>}

BuildStepChoices ==
    {BuildStep(o, <<>>, TRUE, NoPath, p[1], p[2], p[3]) :
        o \in {NoPath, pb}, p \in PayloadChoices}
    \cup {BuildStep(pb, <<pa>>, FALSE, pa, <<>>, <<>>, data1)}

\* path.Join(filepath.Dir(input.OutputDir), "DATA", fmt.Sprintf("%08X", hash))
DataFilePath(data) == <<68, 65, 84, 65, 47>> \o Hex8(ChecksumIEEE(data))

\* fmt.Sprintf("%q", s) of a string without special characters
Quote(s) == <<34>> \o s \o <<34>>

\* The payload written to the DATA directory by AddBuildStep ("" if none)
StepData(step) ==
    IF step.Script # <<>> THEN step.Script
    ELSE IF step.Data # <<>> THEN step.Data
    ELSE <<>>

\* The file mode of the payload: 0755 for a script, DataFileMode or 0644 for data
StepDataMode(step) ==
    IF step.Script # <<>> THEN 493
    ELSE IF step.Data # <<>> /\ step.DataFileMode # 0 THEN step.DataFileMode
    ELSE 420

\* The diagnostic of the first Fatal call that AddBuildStep makes before it
\* writes the payload ("" if it makes none)
StepConflict(step) ==
    IF step.Script # <<>>
    THEN IF step.Cmd # <<>> THEN "cannot specify both Cmd and Script in a build step" ELSE ""
    ELSE IF step.Data # <<>>
    THEN IF step.Cmd # <<>> THEN "cannot specify both Cmd and Data in a build step"
         ELSE IF step.Out = NoPath \/ ~step.OutsNil
              THEN "a single Out is required for Data in a build step"
              ELSE ""
    ELSE ""

\* The command of the rule AddBuildStep makes
StepCmd(step) ==
    IF step.Script # <<>> THEN DataFilePath(StepData(step))
    ELSE IF step.Data # <<>>
    THEN <<99, 112, 32>> \o Quote(DataFilePath(StepData(step))) \o <<32>> \o Quote(step.Out)
    ELSE step.Cmd

StepRule(step) ==
    BuildRule(<<>>,
        IF step.Depfile # NoPath
        THEN (kCommand :> StepCmd(step)) @@ (kDescription :> step.Descr)
             @@ (kDepfile :> ninjaEscape(step.Depfile))
        ELSE (kCommand :> StepCmd(step)) @@ (kDescription :> step.Descr))

\* context.AddBuildStep (the context with build rules); ioOk tells whether
\* creating the DATA directory and writing the payload succeed.
AddBuildStep(step, ioOk) ==
    /\ Running /\ pc = "building" /\ ncalls < MaxCalls
    /\ UNCHANGED <<legacyVars, flagVars>>
    /\ ncalls' = ncalls + 1
    /\ IF StepConflict(step) # "" /\ FatalExits
       THEN /\ Exit(StepConflict(step))
            /\ last' = [op |-> "AddBuildStep", arg |-> step, result |-> "fatal"]
            /\ UNCHANGED <<leafOutputs, steps, buildSteps, targetLog, dataFiles>>
       ELSE IF StepData(step) # <<>> /\ ~ioOk /\ FatalExits
       THEN /\ Exit("Failed to write data file")
            /\ last' = [op |-> "AddBuildStep", arg |-> step, result |-> "fatal"]
            /\ UNCHANGED <<leafOutputs, steps, buildSteps, targetLog, dataFiles>>
       ELSE /\ dataFiles' =
                IF StepData(step) # <<>> /\ ioOk
                THEN dataFiles \cup {[path |-> DataFilePath(StepData(step)),
                                      content |-> StepData(step),
                                      mode |-> StepDataMode(step)]}
                ELSE dataFiles
            /\ RegisterStep(
                 BuildStepWithRule(StepOuts(step), StepIns(step), <<>>, EmptyMap,
                                   StepRule(step)),
                 "AddBuildStep", step)
    /\ UNCHANGED <<targetPaths, nextTarget, currentTarget, trace, scopes, targetRules,
                   ninjaText, outputWritten>>

NoCall == [op |-> "none", arg |-> <<>>, result |-> ""]

\* ------------------------------------------------------------------------
\* WithTrace, handleTarget
\* ------------------------------------------------------------------------

TraceLabels == {<<108, 105, 98, 58, 120>>}   \* "lib:x"

\* The labels of the runs that nest WithTrace calls: "lib:x", "obj:y"
NestLabels == {<<108, 105, 98, 58, 120>>, <<111, 98, 106, 58, 121>>}

\* The number of WithTrace calls that are open at a time in these runs,
\* handleTarget's included
MaxDepth == 3

\* A WithTrace call that returns without cutting the trace
KeepTrace(tr) == tr

\* "target:" + targetPath
TargetLabel(targetPath) == <<116, 97, 114, 103, 101, 116, 58>> \o targetPath

\* The trace a WithTrace call leaves behind when it returns (the deferred
\* function): the last label is cut off
PopTrace(tr) == SubSeq(tr, 1, Len(tr) - 1)

\* context.WithTrace, up to the call of f: the label is pushed
WithTraceEnter(id) ==
    /\ Running /\ pc = "building"
    /\ UNCHANGED <<legacyVars, flagVars>>
    /\ trace' = Append(trace, id)
    /\ scopes' = Append(scopes, [entry |-> trace, id |-> id])
    /\ last' = NoCall
    /\ UNCHANGED <<processVars, pc, targetPaths, nextTarget, currentTarget,
                   leafOutputs, steps, buildSteps, targetRules, dataFiles,
                   ninjaText, outputWritten, ncalls, targetLog>>

\* context.WithTrace, after f has returned: the deferred pop
WithTraceExit ==
    /\ Running /\ pc = "building"
    /\ UNCHANGED <<legacyVars, flagVars>>
    /\ Len(trace) > 1
    /\ trace' = PopTrace(trace)
    /\ scopes' = SubSeq(scopes, 1, Len(scopes) - 1)
    /\ last' = NoCall
    /\ UNCHANGED <<processVars, pc, targetPaths, nextTarget, currentTarget,
                   leafOutputs, steps, buildSteps, targetRules, dataFiles,
                   ninjaText, outputWritten, ncalls, targetLog>>

\* filepath.Rel(input.WorkingDir, path) for a path below the working directory
Rel(base, path) ==
    IF Len(path) >= Len(base) /\ SubSeq(path, 1, Len(base)) = base
    THEN SubSeq(path, Len(base) + 1, Len(path))
    ELSE path

TargetRule(target, ins, variables) ==
    [Target |-> target, Ins |-> ins, Variables |-> variables]

\* The printed outputs of a target without an Outputs method: the frontier,
\* iterated in the order `ord`, relative to the working directory, sorted
PrintOuts(ord) ==
    LET outs == SortStrings([i \in DOMAIN ord |-> Rel(WorkingDir, ord[i])])
    IN IF Len(outs) = 0
       THEN <<<<60, 110, 111, 32, 111, 117, 116, 112, 117, 116, 115, 32,
               112, 114, 111, 100, 117, 99, 101, 100, 62>>>>
       ELSE outs

\* The target rules handleTarget appends for an exported target
TargetRulesOf(t, ord) ==
    <<TargetRule(t, SortStrings([i \in DOMAIN ord |-> ninjaEscape(ord[i])]),
        (kCommand :> (<<101, 99, 104, 111, 32, 34>>
                      \o Join(PrintOuts(ord), <<92, 110>>) \o <<34>>))
        @@ (kDescription :> (<<67, 114, 101, 97, 116, 101, 100, 32>> \o t \o <<58>>)))>>
    \o (IF Runnable(t)
        THEN <<TargetRule(t \o <<35, 114, 117, 110>>, <<t>>,
                 (kCommand :> <<114, 117, 110>>)
                 @@ (kDescription :> (<<82, 117, 110, 110, 105, 110, 103, 32>> \o t \o <<58>>))
                 @@ (kPool :> <<99, 111, 110, 115, 111, 108, 101>>))>>
        ELSE <<>>)
    \o (IF Testable(t)
        THEN <<TargetRule(t \o <<35, 116, 101, 115, 116>>, <<t>>,
                 (kCommand :> <<116, 101, 115, 116>>)
                 @@ (kDescription :> (<<84, 101, 115, 116, 105, 110, 103, 32>> \o t \o <<58>>))
                 @@ (kPool :> <<99, 111, 110, 115, 111, 108, 101>>))>>
        ELSE <<>>)

\* context.handleTarget, up to the call of target.Build
HandleTargetBegin ==
    /\ Running /\ pc = "idle" /\ nextTarget <= Len(targetPaths)
    /\ UNCHANGED <<legacyVars, flagVars>>
    /\ currentTarget' = targetPaths[nextTarget]
    /\ leafOutputs' = {}
    /\ targetLog' = <<>>
    /\ trace' = Append(trace, TargetLabel(targetPaths[nextTarget]))
    /\ scopes' = Append(scopes, [entry |-> trace, id |-> TargetLabel(targetPaths[nextTarget])])
    /\ pc' = "building"
    /\ last' = NoCall
    /\ UNCHANGED <<completionsOnly, exited, fatalMsg, targetPaths, nextTarget, steps,
                   buildSteps, targetRules, dataFiles, ninjaText, outputWritten, ncalls>>

\* context.handleTarget, after target.Build has returned; ord is the order
\* in which the frontier is iterated
HandleTargetEnd(ord) ==
    /\ Running /\ pc = "building" /\ Len(trace) = 1
    /\ UNCHANGED <<legacyVars, flagVars>>
    /\ trace' = PopTrace(trace)
    /\ scopes' = SubSeq(scopes, 1, Len(scopes) - 1)
    /\ targetRules' =
          IF IsUpper(Base(currentTarget))
          THEN targetRules \o TargetRulesOf(currentTarget, ord)
          ELSE targetRules
    /\ nextTarget' = nextTarget + 1
    /\ pc' = "idle"
    /\ last' = NoCall
    /\ UNCHANGED <<completionsOnly, exited, fatalMsg, targetPaths, currentTarget,
                   leafOutputs, steps, buildSteps, dataFiles, ninjaText,
                   outputWritten, ncalls, targetLog>>

\* ------------------------------------------------------------------------
\* context.ninjaFile
\* ------------------------------------------------------------------------

\* The number of the trace after which the serializer stops
TraceLimit == 10

\* fmt.Sprintf("__rule%d", i)
AutoRuleName(i) == <<95, 95, 114, 117, 108, 101>> \o Itoa(i)

\* fmt.Sprintf("__target%d", i)
TargetRuleName(i) == <<95, 95, 116, 97, 114, 103, 101, 116>> \o Itoa(i)

VarKeys == <<kCommand, kDepfile, kDescription, kPool>>

\* The orders in which the model iterates a map of variables: Go leaves
\* the order open; the model takes the keys in ascending and in descending order.
VarOrders == {VarKeys, [i \in DOMAIN VarKeys |-> VarKeys[Len(VarKeys) + 1 - i]]}

RECURSIVE KeysIn(_, _)
KeysIn(m, vo) ==
    IF vo = <<>> THEN <<>>
    ELSE (IF vo[1] \in DOMAIN m THEN <<vo[1]>> ELSE <<>>) \o KeysIn(m, Tail(vo))

\* "  name = value" for every entry of a map, iterated in the order vo
VarLines(m, vo) ==
    LET ks == KeysIn(m, vo) IN [i \in DOMAIN ks |-> <<"  var", ks[i], m[ks[i]]>>]

\* The first loop of ninjaFile: names the unnamed rules (in the stored
\* steps) and writes one block per rule name not seen before.
RECURSIVE RuleBlocks(_, _, _, _, _, _)
RuleBlocks(ord, hp, i, seenRules, text, vo) ==
    IF ord = <<>> THEN [steps |-> hp, text |-> text]
    ELSE LET idx == buildSteps[ord[1]]
             unnamed == hp[idx].Rule.Name = <<>>
             name == IF unnamed THEN AutoRuleName(i) ELSE hp[idx].Rule.Name
             hp2 == [hp EXCEPT ![idx].Rule.Name = name]
             i2 == IF unnamed THEN i + 1 ELSE i
         IN IF name \in seenRules
            THEN RuleBlocks(Tail(ord), hp2, i2, seenRules, text, vo)
            ELSE RuleBlocks(Tail(ord), hp2, i2, seenRules \cup {name},
                    text \o <<<<"rule", name>>>> \o VarLines(hp2[idx].Rule.Variables, vo)
                         \o <<<<"">>>>,
                    vo)

\* The "# trace:" comments of one build edge
TraceLines(traces) ==
    LET n == Len(traces)
        shown == IF n > TraceLimit + 1 THEN TraceLimit + 1 ELSE n
    IN [i \in 1..shown |-> <<"# trace", Join(traces[i], <<32, 45, 45, 62, 32>>)>>]
       \o (IF n > TraceLimit THEN <<<<"# skipped", Itoa(n - TraceLimit)>>>> ELSE <<>>)

\* The second loop of ninjaFile: one build edge per stored step
RECURSIVE StepBlocks(_, _, _, _, _)
StepBlocks(ord, hp, seenSteps, text, vo) ==
    IF ord = <<>> THEN text
    ELSE LET idx == buildSteps[ord[1]]
             step == hp[idx]
         IN IF idx \in seenSteps
            THEN StepBlocks(Tail(ord), hp, seenSteps, text, vo)
            ELSE StepBlocks(Tail(ord), hp, seenSteps \cup {idx},
                    text \o TraceLines(step.traces)
                         \o <<<<"build", MapSeq(ninjaEscape, step.Outs), step.Rule.Name,
                                MapSeq(ninjaEscape, step.Ins),
                                MapSeq(ninjaEscape, step.OrderDeps)>>>>
                         \o VarLines(step.Variables, vo) \o <<<<"">>>>,
                    vo)

\* The third loop of ninjaFile: the target rules, in the order they were added
RECURSIVE TargetBlocks(_, _, _, _)
TargetBlocks(rules, i, text, vo) ==
    IF rules = <<>> THEN text
    ELSE TargetBlocks(Tail(rules), i + 1,
            text \o <<<<"rule", TargetRuleName(i)>>>> \o VarLines(rules[1].Variables, vo)
                 \o <<<<"build", <<rules[1].Target>>, TargetRuleName(i),
                        rules[1].Ins \o <<<<95, 95, 112, 104, 111, 110, 121, 95, 95>>>>,
                        <<>>>>, <<"">>>>,
            vo)

\* context.ninjaFile with the build steps iterated in the order ordR by the
\* first loop and ordS by the second, and every variable map in the order vo:
\* the text, and the stored steps with their rules named
ninjaFile(ordR, ordS, vo) ==
    LET rules == RuleBlocks(ordR, steps, 0, {},
                     <<<<"build __phony__: phony">>, <<"# build rules">>>>, vo)
        edges == StepBlocks(ordS, rules.steps, {},
                     rules.text \o <<<<"# build steps">>>>, vo)
    IN [steps |-> rules.steps,
        text |-> TargetBlocks(targetRules, 0, edges \o <<<<"# targets">>>>, vo)]

\* ------------------------------------------------------------------------
\* GeneratorMain
\* ------------------------------------------------------------------------

\* "Create build files": the context is made and the target paths are
\* collected in the map's iteration order ord and sorted
BeginBuild(ord) ==
    /\ Running /\ pc = "main" /\ flagsLocked /\ ~completionsOnly
    /\ UNCHANGED <<legacyVars, flagVars>>
    /\ targetPaths' = SortStrings(ord)
    /\ nextTarget' = 1
    /\ pc' = "idle"
    /\ last' = NoCall
    /\ UNCHANGED <<processVars, currentTarget, trace, scopes, leafOutputs, steps, buildSteps,
                   targetRules, dataFiles, ninjaText, outputWritten, ncalls, targetLog>>

\* A completions-only run makes no build file
SkipBuild ==
    /\ Running /\ pc = "main" /\ flagsLocked /\ completionsOnly
    /\ UNCHANGED <<legacyVars, flagVars>>
    /\ pc' = "serialize"
    /\ last' = NoCall
    /\ UNCHANGED <<processVars, targetPaths, nextTarget, currentTarget, trace, scopes,
                   leafOutputs, steps, buildSteps, targetRules, dataFiles, ninjaText,
                   outputWritten, ncalls, targetLog>>

\* A loop over the targets that may end after its first target
FirstTargetHandled == nextTarget > 1

\* The loop over targetPaths has come to its end
AllTargetsHandled == nextTarget > Len(targetPaths)

\* output.NinjaFile = ctx.ninjaFile(), once every target has been handled
RenderNinjaFile(ordR, ordS, vo) ==
    /\ Running /\ pc = "idle" /\ AllTargetsHandled
    /\ UNCHANGED <<legacyVars, flagVars>>
    /\ ninjaText' = ninjaFile(ordR, ordS, vo).text
    /\ steps' = ninjaFile(ordR, ordS, vo).steps
    /\ pc' = "serialize"
    /\ last' = NoCall
    /\ UNCHANGED <<processVars, targetPaths, nextTarget, currentTarget, trace, scopes,
                   leafOutputs, buildSteps, targetRules, dataFiles, outputWritten,
                   ncalls, targetLog>>

\* "Serialize generator output": output.json is written; ioOk tells whether
\* ioutil.WriteFile succeeds
WriteOutput(ioOk) ==
    /\ Running /\ pc = "serialize"
    /\ UNCHANGED <<legacyVars, flagVars>>
    /\ outputWritten' = ioOk
    /\ IF ~ioOk /\ FatalExits
       THEN Exit("failed to write generator output")
       ELSE pc' = "done" /\ UNCHANGED processVars
    /\ last' = NoCall
    /\ UNCHANGED <<targetPaths, nextTarget, currentTarget, trace, scopes,
                   leafOutputs, steps, buildSteps, targetRules, dataFiles, ninjaText,
                   ncalls, targetLog>>

\* ------------------------------------------------------------------------
\* The context without build rules: Built, AddBuildStep, handleTarget and
\* the GeneratorMain that drives them
\* ------------------------------------------------------------------------

\* The number of Built / AddBuildStep calls in one run of the earlier context.
MaxLegacyCalls == 3

\* newContext
NewContext ==
    [leafOutputs |-> {}, targetDependencies |-> <<>>, buildOutputs |-> EmptyMap,
     ninjaFile |-> <<<<"build __phony__: phony">>>>, nextRuleID |-> 0,
     trace |-> <<>>, seenOnce |-> {}]

\* Fatal in the run of the context without build rules
LegacyExit(msg) ==
    /\ exited' = TRUE
    /\ fatalMsg' = msg
    /\ legacyPc' = "exit"
    /\ UNCHANGED completionsOnly

\* Built without the assignment ctx.seenOnce[id] = true
SeenOnceKept(seenOnce_, id) == seenOnce_

\* Built that returns false for every identity
BuiltNever(seenOnce_, id) == FALSE

\* Built: the value returned, and the identities seen after the call
BuiltResult(seenOnce_, id) == id \in seenOnce_
SeenOnceAfter(seenOnce_, id) == seenOnce_ \cup {id}

BuiltIds == {pa, pb}

\* context.Built
Built(id) ==
    /\ Running /\ legacyPc = "building" /\ legacyCalls < MaxLegacyCalls
    /\ legacyCalls' = legacyCalls + 1
    /\ builtLog' = Append(builtLog, [id |-> id, target |-> varsOrder[varsNext],
                                     result |-> BuiltResult(context.seenOnce, id)])
    /\ context' = [context EXCEPT !.seenOnce = SeenOnceAfter(@, id)]
    /\ UNCHANGED <<processVars, engineVars, flagVars, libraries, buildCalls,
                   dataDir, legacyPc, varsOrder, varsNext>>

\* The values a target's Build may hand to addTargetDependency: a pointer to
\* the target "b" of the vars map, a target that is not a pointer, and a
\* pointer to a target that is not in the vars map
DependencyChoices ==
    {[isPtr |-> TRUE, name |-> tb], [isPtr |-> FALSE, name |-> tb],
     [isPtr |-> TRUE, name |-> NoPath]}

\* context.addTargetDependency; ctx.targetNames holds the targets of the vars map
addTargetDependency(target) ==
    /\ Running /\ legacyPc = "building" /\ legacyCalls < MaxLegacyCalls
    /\ legacyCalls' = legacyCalls + 1
    /\ IF ~target.isPtr /\ FatalExits
       THEN /\ LegacyExit("adding target dependency to non-pointer target")
            /\ UNCHANGED context
       ELSE IF target.name \notin TargetNames /\ FatalExits
       THEN /\ LegacyExit("adding target dependency to invalid target")
            /\ UNCHANGED context
       ELSE /\ context' = [context EXCEPT !.targetDependencies =
                               Append(@, IF target.name \in TargetNames
                                         THEN target.name ELSE <<>>)]
            /\ UNCHANGED <<processVars, legacyPc>>
    /\ UNCHANGED <<engineVars, flagVars, libraries, buildCalls,
                   dataDir, varsOrder, varsNext, builtLog>>

\* The steps a target's Build may hand to the AddBuildStep of this context
LegacyStepChoices ==
    {BuildStep(NoPath, <<>>, TRUE, NoPath, cmd1, <<>>, <<>>),
     BuildStep(NoPath, <<>>, TRUE, pa, <<>>, <<>>, data1),
     BuildStep(pa, <<>>, TRUE, NoPath, cmd1, <<>>, <<>>),
     BuildStep(pb, <<>>, TRUE, pa, cmd1, <<>>, <<>>),
     BuildStep(pb, <<>>, TRUE, NoPath, <<>>, script1, <<>>),
     BuildStep(pb, <<>>, TRUE, NoPath, cmd1, script1, <<>>),
     BuildStep(pb, <<pa>>, FALSE, NoPath, <<>>, <<>>, data1)}

\* fmt.Sprintf("r%d", ctx.nextRuleID)
LegacyRuleName(n) == <<114>> \o Itoa(n)

\* The first loop of AddBuildStep: every output is entered into buildOutputs
\* and joins the frontier
LegacyAddOuts(c, step) ==
    LET outs == Range(StepOuts(step)) IN
    [c EXCEPT !.buildOutputs = [o \in DOMAIN c.buildOutputs \cup outs |->
                                   IF o \in outs THEN step ELSE c.buildOutputs[o]],
              !.leafOutputs = c.leafOutputs \cup outs]

\* The second loop of AddBuildStep: every input leaves the frontier
LegacyDropIns(c, step) == [c EXCEPT !.leafOutputs = @ \ Range(StepIns(step))]

\* The text AddBuildStep appends to ctx.ninjaFile
LegacyStepText(c, step) ==
    <<<<"# trace", Join(c.trace, <<32, 47, 47, 32>>)>>,
      <<"rule", LegacyRuleName(c.nextRuleID)>>>>
    \o (IF step.Depfile # NoPath
        THEN <<<<"  var", kDepfile, ninjaEscape(step.Depfile)>>>> ELSE <<>>)
    \o <<<<"  var", kCommand, StepCmd(step)>>>>
    \o (IF step.Descr # <<>> THEN <<<<"  var", kDescription, step.Descr>>>> ELSE <<>>)
    \o <<<<"">>,
         <<"build", MapSeq(ninjaEscape, StepOuts(step)), LegacyRuleName(c.nextRuleID),
           MapSeq(ninjaEscape, StepIns(step))>>,
         <<"">>>>

\* context.AddBuildStep of the context without build rules; ioOk tells
\* whether creating the DATA directory and writing the payload succeed
AddBuildStepLegacy(step, ioOk) ==
    /\ Running /\ legacyPc = "building" /\ legacyCalls < MaxLegacyCalls
    /\ legacyCalls' = legacyCalls + 1
    /\ LET c1 == LegacyAddOuts(context, step)
           c2 == LegacyDropIns(c1, step)
       IN IF Len(StepOuts(step)) = 0
          THEN /\ context' = c1
               /\ UNCHANGED <<processVars, legacyPc, dataDir>>
          ELSE IF StepConflict(step) # "" /\ FatalExits
          THEN /\ LegacyExit(StepConflict(step))
               /\ context' = c2
               /\ UNCHANGED dataDir
          ELSE IF StepData(step) # <<>> /\ ~ioOk /\ FatalExits
          THEN /\ LegacyExit("Failed to write data file")
               /\ context' = c2
               /\ UNCHANGED dataDir
          ELSE /\ dataDir' =
                    IF StepData(step) # <<>> /\ ioOk
                    THEN dataDir \cup {[path |-> DataFilePath(StepData(step)),
                                        content |-> StepData(step),
                                        mode |-> StepDataMode(step)]}
                    ELSE dataDir
               /\ context' = [c2 EXCEPT !.ninjaFile = @ \o LegacyStepText(c2, step),
                                        !.nextRuleID = @ + 1]
               /\ UNCHANGED <<processVars, legacyPc>>
    /\ UNCHANGED <<engineVars, flagVars, libraries, buildCalls, varsOrder, varsNext, builtLog>>

\* The text of handleTarget without the edge of a runnable target
LegacyTargetTextWithoutRun(c, t, ord) ==
    <<<<"rule", LegacyRuleName(c.nextRuleID)>>,
      <<"  var", kCommand, <<101, 99, 104, 111, 32, 34>>
                           \o Join(PrintOuts(ord), <<92, 110>>) \o <<34>>>>,
      <<"  var", kDescription, <<67, 114, 101, 97, 116, 101, 100, 32>> \o t \o <<58>>>>,
      <<"build", <<t>>, LegacyRuleName(c.nextRuleID),
        SortStrings([i \in DOMAIN ord |-> ninjaEscape(ord[i])])
            \o c.targetDependencies \o <<<<95, 95, 112, 104, 111, 110, 121, 95, 95>>>>>>,
      <<"">>>>

\* The text handleTarget appends for an exported target; ord is the order in
\* which the frontier is iterated
LegacyTargetText(c, t, ord) ==
    <<<<"rule", LegacyRuleName(c.nextRuleID)>>,
      <<"  var", kCommand, <<101, 99, 104, 111, 32, 34>>
                           \o Join(PrintOuts(ord), <<92, 110>>) \o <<34>>>>,
      <<"  var", kDescription, <<67, 114, 101, 97, 116, 101, 100, 32>> \o t \o <<58>>>>,
      <<"build", <<t>>, LegacyRuleName(c.nextRuleID),
        SortStrings([i \in DOMAIN ord |-> ninjaEscape(ord[i])])
            \o c.targetDependencies \o <<<<95, 95, 112, 104, 111, 110, 121, 95, 95>>>>>>,
      <<"">>>>
    \o (IF Runnable(t)
        THEN <<<<"rule", LegacyRuleName(c.nextRuleID + 1)>>,
               <<"  var", kCommand, <<114, 117, 110>>>>,
               <<"  var", kDescription, <<82, 117, 110, 110, 105, 110, 103, 32>> \o t \o <<58>>>>,
               <<"  var", kPool, <<99, 111, 110, 115, 111, 108, 101>>>>,
               <<"build", <<t \o <<35, 114, 117, 110>>>>, LegacyRuleName(c.nextRuleID + 1),
                 <<t, <<95, 95, 112, 104, 111, 110, 121, 95, 95>>>>>>,
               <<"">>>>
        ELSE <<>>)

\* handleTarget of the context without build rules, up to the call of target.Build
LegacyHandleTargetBegin ==
    /\ Running /\ legacyPc = "idle" /\ varsNext <= Len(varsOrder)
    /\ context' = [context EXCEPT !.leafOutputs = {}, !.targetDependencies = <<>>,
                       !.trace = Append(@, <<116, 111, 112, 58>> \o varsOrder[varsNext])]
    /\ legacyPc' = "building"
    /\ UNCHANGED <<processVars, engineVars, flagVars, libraries, buildCalls,
                   dataDir, varsOrder, varsNext,
                   legacyCalls, builtLog>>

\* handleTarget of the context without build rules, after target.Build has returned
LegacyHandleTargetEnd(ord) ==
    /\ Running /\ legacyPc = "building" /\ buildCalls = <<>>
    /\ LET t == varsOrder[varsNext]
           c == [context EXCEPT !.trace = SubSeq(@, 1, Len(@) - 1)]
       IN context' =
            IF IsUpper(Base(t))
            THEN [c EXCEPT !.ninjaFile = @ \o LegacyTargetText(c, t, ord),
                           !.nextRuleID = @ + (IF Runnable(t) THEN 2 ELSE 1)]
            ELSE c
    /\ varsNext' = varsNext + 1
    /\ legacyPc' = "idle"
    /\ UNCHANGED <<processVars, engineVars, flagVars, libraries, buildCalls,
                   dataDir, varsOrder, legacyCalls,
                   builtLog>>

\* GeneratorMain with the context without build rules: the context is made;
\* the targets are handled in the order ord in which the map vars is iterated
LegacyBeginBuild(ord) ==
    /\ Running /\ legacyPc = "main" /\ ~completionsOnly
    /\ context' = NewContext
    /\ varsOrder' = ord
    /\ varsNext' = 1
    /\ legacyPc' = "idle"
    /\ UNCHANGED <<processVars, engineVars, flagVars, libraries, buildCalls,
                   dataDir, legacyCalls, builtLog>>

\* A completions-only run makes no context
LegacySkipBuild ==
    /\ Running /\ legacyPc = "main" /\ completionsOnly
    /\ legacyPc' = "done"
    /\ UNCHANGED <<processVars, engineVars, flagVars, libraries, buildCalls,
                   context, dataDir, varsOrder,
                   varsNext, legacyCalls, builtLog>>

\* output.NinjaFile = ctx.ninjaFile.String(), and the output is serialized
LegacyWriteOutput ==
    /\ Running /\ legacyPc = "idle" /\ varsNext > Len(varsOrder)
    /\ legacyPc' = "done"
    /\ UNCHANGED <<processVars, engineVars, flagVars, libraries, buildCalls,
                   context, dataDir, varsOrder,
                   varsNext, legacyCalls, builtLog>>

\* The run of the earlier GeneratorMain before its first step
LegacyMainInit ==
    /\ context = NewContext
    /\ dataDir = {}
    /\ legacyPc = "main"
    /\ varsOrder = <<>>
    /\ varsNext = 1
    /\ legacyCalls = 0
    /\ builtLog = <<>>
    /\ buildCalls = <<>>

\* Build files that declare no library
LegacyInit == LegacyMainInit /\ libraries = <<>>

NextLegacy ==
    \/ \E ord \in Perms(TargetNames) : LegacyBeginBuild(ord)
    \/ LegacySkipBuild
    \/ LegacyHandleTargetBegin
    \/ \E id \in BuiltIds : Built(id)
    \/ \E target \in DependencyChoices : addTargetDependency(target)
    \/ \E step \in LegacyStepChoices :
          \E ioOk \in (IF StepData(step) # <<>> THEN BOOLEAN ELSE {TRUE}) :
            AddBuildStepLegacy(step, ioOk)
    \/ \E ord \in Perms(context.leafOutputs) : LegacyHandleTargetEnd(ord)
    \/ LegacyWriteOutput

\* ------------------------------------------------------------------------
\* The flag registry (flags.go)
\* ------------------------------------------------------------------------

\* The number of Register / Value calls of the runs that are followed.
MaxFlagOps == 3

fa == <<97>>                    \* "a"
fb == <<98>>                    \* "b"
vx == <<120>>                   \* "x"
vy == <<121>>                   \* "y"
vhash == <<35, 98, 61>>         \* "#b="
vtrue == <<116, 114, 117, 101>> \* "true"

\* strings.Index(s, b), from position i on; 0 if b does not occur
RECURSIVE IndexByte(_, _, _)
IndexByte(s, b, i) ==
    IF i > Len(s) THEN 0 ELSE IF s[i] = b THEN i ELSE IndexByte(s, b, i + 1)

\* getCmdlineFlags: every argument is split at its first "="; an argument
\* without "=" stands for the value "true"; a later argument wins
RECURSIVE getCmdlineFlags(_)
getCmdlineFlags(args) ==
    IF args = <<>> THEN EmptyMap
    ELSE LET arg == args[Len(args)]
             k == IndexByte(arg, 61, 1)
             name == IF k = 0 THEN arg ELSE SubSeq(arg, 1, k - 1)
             value == IF k = 0 THEN vtrue ELSE SubSeq(arg, k + 1, Len(arg))
         IN (name :> value) @@ getCmdlineFlags(SubSeq(args, 1, Len(args) - 1))

\* otherArgs(): the command lines of the runs
ArgChoices ==
    {<<>>,
     <<<<97, 61, 120>>>>,                           \* a=x
     <<<<97, 61, 35, 98, 61>>>>,                    \* a=#b=
     <<<<97, 61>>, <<98, 61, 35, 98, 61>>>>,        \* a=  b=#b=
     <<<<98>>>>}                                    \* b

\* ---- encoding/json, for a map[string]string ----

\* A nibble as a lower-case hexadecimal digit
HexLower(n) == IF n < 10 THEN 48 + n ELSE 87 + n

\* The value of a hexadecimal digit
HexVal(b) == IF b \in 48..57 THEN b - 48 ELSE IF b \in 97..102 THEN b - 87 ELSE b - 55

\* s[i] is a continuation byte of UTF-8
Cont(s, i) == i <= Len(s) /\ s[i] \in 128..191

\* utf8.DecodeRuneInString at s[i]: the length of the well-formed encoding
\* that starts there; 0 stands for RuneError with size 1
Utf8Len(s, i) ==
    LET b == s[i] IN
    IF b < 128 THEN 1
    ELSE IF b \in 194..223 /\ Cont(s, i + 1) THEN 2
    ELSE IF b = 224 /\ Cont(s, i + 1) /\ s[i + 1] >= 160 /\ Cont(s, i + 2) THEN 3
    ELSE IF b \in (225..236) \cup {238, 239} /\ Cont(s, i + 1) /\ Cont(s, i + 2) THEN 3
    ELSE IF b = 237 /\ Cont(s, i + 1) /\ s[i + 1] <= 159 /\ Cont(s, i + 2) THEN 3
    ELSE IF b = 240 /\ Cont(s, i + 1) /\ s[i + 1] >= 144 /\ Cont(s, i + 2) /\ Cont(s, i + 3)
    THEN 4
    ELSE IF b \in 241..243 /\ Cont(s, i + 1) /\ Cont(s, i + 2) /\ Cont(s, i + 3) THEN 4
    ELSE IF b = 244 /\ Cont(s, i + 1) /\ s[i + 1] <= 143 /\ Cont(s, i + 2) /\ Cont(s, i + 3)
    THEN 4
    ELSE 0

\* U+FFFD in UTF-8
ReplacementChar == <<239, 191, 189>>

\* The body of a JSON string as json.Marshal writes it (HTML escaping on):
\* quote and backslash get a backslash, control bytes and < > & become \u00xx
\* (\n, \r, \t have short forms), U+2028 and U+2029 are escaped, and a byte
\* that is not part of well-formed UTF-8 is written as the escape of U+FFFD
RECURSIVE jsonEncodeString(_, _)
jsonEncodeString(s, i) ==
    IF i > Len(s) THEN <<>>
    ELSE LET b == s[i]
             n == Utf8Len(s, i)
         IN IF b < 128
            THEN (IF b \in {34, 92} THEN <<92, b>>
                  ELSE IF b = 10 THEN <<92, 110>>
                  ELSE IF b = 13 THEN <<92, 114>>
                  ELSE IF b = 9 THEN <<92, 116>>
                  ELSE IF b < 32 \/ b \in {60, 62, 38}
                  THEN <<92, 117, 48, 48, HexLower(b \div 16), HexLower(b % 16)>>
                  ELSE <<b>>) \o jsonEncodeString(s, i + 1)
            ELSE IF n = 0
            THEN <<92, 117, 102, 102, 102, 100>> \o jsonEncodeString(s, i + 1)
            ELSE IF n = 3 /\ b = 226 /\ s[i + 1] = 128 /\ s[i + 2] \in {168, 169}
            THEN <<92, 117, 50, 48, 50, HexLower(s[i + 2] - 160)>>
                 \o jsonEncodeString(s, i + 3)
            ELSE SubSeq(s, i, i + n - 1) \o jsonEncodeString(s, i + n)

\* A string between quotes
jsonQuote(s) == <<34>> \o jsonEncodeString(s, 1) \o <<34>>

\* "key":"value" for the keys in the given order
jsonMembers(m, keys) ==
    [i \in DOMAIN keys |-> jsonQuote(keys[i]) \o <<58>> \o jsonQuote(m[keys[i]])]

\* json.Marshal of a map[string]string: the keys are sorted
jsonMarshal(m) ==
    LET keys == SortStrings(CHOOSE ord \in Perms(DOMAIN m) : TRUE)
    IN <<123>> \o Join(jsonMembers(m, keys), <<44>>) \o <<125>>

\* utf8.EncodeRune; a surrogate half is encoded as U+FFFD
Utf8Encode(cp) ==
    IF cp < 128 THEN <<cp>>
    ELSE IF cp < 2048 THEN <<192 + (cp \div 64), 128 + (cp % 64)>>
    ELSE IF cp \in 55296..57343 THEN ReplacementChar
    ELSE <<224 + (cp \div 4096), 128 + ((cp \div 64) % 64), 128 + (cp % 64)>>

\* The character an escape \c other than \u stands for
Unescape(c) ==
    IF c = 110 THEN 10 ELSE IF c = 114 THEN 13 ELSE IF c = 116 THEN 9
    ELSE IF c = 98 THEN 8 ELSE IF c = 102 THEN 12 ELSE c

\* The decoder's reading of the body of a JSON string that starts at s[i]:
\* the string and the position after the closing quote. Escapes are
\* resolved, well-formed UTF-8 is copied and any other byte becomes U+FFFD.
RECURSIVE jsonDecodeString(_, _)
jsonDecodeString(s, i) ==
    LET b == s[i] IN
    IF b = 34 THEN [val |-> <<>>, next |-> i + 1]
    ELSE IF b = 92 /\ s[i + 1] = 117
    THEN LET cp == 4096 * HexVal(s[i + 2]) + 256 * HexVal(s[i + 3])
                   + 16 * HexVal(s[i + 4]) + HexVal(s[i + 5])
             rest == jsonDecodeString(s, i + 6)
         IN [val |-> Utf8Encode(cp) \o rest.val, next |-> rest.next]
    ELSE IF b = 92
    THEN LET rest == jsonDecodeString(s, i + 2)
         IN [val |-> <<Unescape(s[i + 1])>> \o rest.val, next |-> rest.next]
    ELSE LET n == Utf8Len(s, i)
             rest == jsonDecodeString(s, i + (IF n = 0 THEN 1 ELSE n))
         IN [val |-> (IF n = 0 THEN ReplacementChar ELSE SubSeq(s, i, i + n - 1))
                     \o rest.val,
             next |-> rest.next]

\* The members of a JSON object from s[i] on, up to the closing brace; a
\* later member of the same key wins
RECURSIVE jsonParseMembers(_, _)
jsonParseMembers(s, i) ==
    IF s[i] = 125 THEN EmptyMap
    ELSE LET j == IF s[i] = 44 THEN i + 1 ELSE i
             key == jsonDecodeString(s, j + 1)
             val == jsonDecodeString(s, key.next + 2)
         IN jsonParseMembers(s, val.next) @@ (key.val :> val.val)

\* json.Unmarshal into a map[string]string, of a text that json.Marshal wrote
jsonUnmarshal(data) == jsonParseMembers(data, 2)

\* ../FLAGS.json when the run starts: absent, or {"a":"y","b":"x"}
ConfigFileChoices ==
    {[exists |-> FALSE, data |-> <<>>],
     [exists |-> TRUE,
      data |-> <<123, 34, 97, 34, 58, 34, 121, 34, 44, 34, 98, 34, 58, 34, 120, 34, 125>>]}

\* getConfigFileFlags
getConfigFileFlags(file) == IF file.exists THEN jsonUnmarshal(file.data) ELSE EmptyMap

\* A StringFlag literal; hasDefault tells whether DefaultFn is set
StringFlag(name, allowedValues, hasDefault, default) ==
    [Name |-> name, AllowedValues |-> allowedValues, HasDefault |-> hasDefault,
     Default |-> default, isInitialized |-> FALSE, value |-> <<>>]

\* The StringFlag variables of the build files
FlagDecls ==
    <<StringFlag(fa, <<>>, FALSE, <<>>),
      StringFlag(fb, <<>>, TRUE, <<>>),
      StringFlag(fa, <<vx>>, TRUE, vx)>>

\* StringFlag.info
FlagInfo(flag) ==
    [Type |-> "string", AllowedValues |-> flag.AllowedValues, Value |-> flag.value]

\* The choice of initializeFlag with the config file asked before the command line
ResolveConfigFirst(flag) ==
    IF flag.Name \in DOMAIN configFileFlags
    THEN [found |-> TRUE, value |-> configFileFlags[flag.Name]]
    ELSE IF flag.Name \in DOMAIN cmdlineFlags
    THEN [found |-> TRUE, value |-> cmdlineFlags[flag.Name]]
    ELSE IF flag.HasDefault THEN [found |-> TRUE, value |-> flag.Default]
    ELSE [found |-> FALSE, value |-> flag.value]

\* The choice of initializeFlag among the command line, the config file and
\* the default (setFromString, setToDefault)
Resolve(flag) ==
    IF flag.Name \in DOMAIN cmdlineFlags
    THEN [found |-> TRUE, value |-> cmdlineFlags[flag.Name]]
    ELSE IF flag.Name \in DOMAIN configFileFlags
    THEN [found |-> TRUE, value |-> configFileFlags[flag.Name]]
    ELSE IF flag.HasDefault THEN [found |-> TRUE, value |-> flag.Default]
    ELSE [found |-> FALSE, value |-> flag.value]

\* initializeFlag without the test of flagsLocked
initializeFlagIgnoringLock(flag) ==
    IF flag.isInitialized
    THEN [flag |-> flag, registeredFlags |-> registeredFlags, fatal |-> ""]
    ELSE LET f1 == [flag EXCEPT !.isInitialized = TRUE] IN
         IF flag.Name \in DOMAIN registeredFlags /\ FatalExits
         THEN [flag |-> f1, registeredFlags |-> registeredFlags,
               fatal |-> "multiple flags with name"]
         ELSE LET r == Resolve(f1)
                  f2 == [f1 EXCEPT !.value = r.value]
                  reg == (flag.Name :> f2) @@ registeredFlags
              IN IF ~r.found /\ FatalExits
                 THEN [flag |-> f2, registeredFlags |-> reg, fatal |-> "flag has no value"]
                 ELSE IF /\ Len(f2.AllowedValues) # 0
                         /\ f2.value \notin Range(f2.AllowedValues)
                         /\ FatalExits
                 THEN [flag |-> f2, registeredFlags |-> reg,
                       fatal |-> "flag has unallowed value"]
                 ELSE [flag |-> f2, registeredFlags |-> reg, fatal |-> ""]

\* initializeFlag with the registry entry of an earlier flag of the same
\* name replaced before the duplicate is reported
initializeFlagReplacing(flag) ==
    IF flag.isInitialized
    THEN [flag |-> flag, registeredFlags |-> registeredFlags, fatal |-> ""]
    ELSE IF flagsLocked /\ FatalExits
    THEN [flag |-> flag, registeredFlags |-> registeredFlags,
          fatal |-> "flag accessed, but not reistered"]
    ELSE LET f1 == [flag EXCEPT !.isInitialized = TRUE] IN
         IF flag.Name \in DOMAIN registeredFlags /\ FatalExits
         THEN [flag |-> f1, registeredFlags |-> (flag.Name :> f1) @@ registeredFlags,
               fatal |-> "multiple flags with name"]
         ELSE LET r == Resolve(f1)
                  f2 == [f1 EXCEPT !.value = r.value]
                  reg == (flag.Name :> f2) @@ registeredFlags
              IN IF ~r.found /\ FatalExits
                 THEN [flag |-> f2, registeredFlags |-> reg, fatal |-> "flag has no value"]
                 ELSE IF /\ Len(f2.AllowedValues) # 0
                         /\ f2.value \notin Range(f2.AllowedValues)
                         /\ FatalExits
                 THEN [flag |-> f2, registeredFlags |-> reg,
                       fatal |-> "flag has unallowed value"]
                 ELSE [flag |-> f2, registeredFlags |-> reg, fatal |-> ""]

\* initializeFlag: the flag and the registry after the call, and the
\* diagnostic of the Fatal call that ended the run ("" if none did)
initializeFlag(flag) ==
    IF flag.isInitialized
    THEN [flag |-> flag, registeredFlags |-> registeredFlags, fatal |-> ""]
    ELSE IF flagsLocked /\ FatalExits
    THEN [flag |-> flag, registeredFlags |-> registeredFlags,
          fatal |-> "flag accessed, but not reistered"]
    ELSE LET f1 == [flag EXCEPT !.isInitialized = TRUE] IN
         IF flag.Name \in DOMAIN registeredFlags /\ FatalExits
         THEN [flag |-> f1, registeredFlags |-> registeredFlags,
               fatal |-> "multiple flags with name"]
         ELSE LET r == Resolve(f1)
                  f2 == [f1 EXCEPT !.value = r.value]
                  reg == (flag.Name :> f2) @@ registeredFlags
              IN IF ~r.found /\ FatalExits
                 THEN [flag |-> f2, registeredFlags |-> reg, fatal |-> "flag has no value"]
                 ELSE IF /\ Len(f2.AllowedValues) # 0
                         /\ f2.value \notin Range(f2.AllowedValues)
                         /\ FatalExits
                 THEN [flag |-> f2, registeredFlags |-> reg,
                       fatal |-> "flag has unallowed value"]
                 ELSE [flag |-> f2, registeredFlags |-> reg, fatal |-> ""]

NoFlagOp == [op |-> "none"]

\* No run of the generator has gone before
NoRun == [locked |-> FALSE]

\* What a Register or Value call leaves behind, given the result of initializeFlag
FlagCall(op, i, res) ==
    /\ registeredFlags' = res.registeredFlags
    /\ lastFlag' = [op |-> op, obj |-> i, before |-> flagObjects[i],
                    after |-> res.flag, fatal |-> res.fatal]
    /\ IF res.fatal # ""
       THEN /\ exited' = TRUE /\ fatalMsg' = res.fatal /\ flagPc' = "exit"
            /\ UNCHANGED completionsOnly
       ELSE UNCHANGED <<processVars, flagPc>>

\* StringFlag.Register: the value receiver makes a copy of the flag, which is
\* initialized and whose address is returned
Register(i) ==
    /\ Running /\ flagOps < MaxFlagOps
    /\ flagOps' = flagOps + 1
    /\ LET res == initializeFlag(flagObjects[i]) IN
        /\ FlagCall("Register", i, res)
        /\ flagObjects' = Append(flagObjects, res.flag)
    /\ UNCHANGED <<engineVars, legacyVars, cmdlineFlags, configFileFlags, flagsLocked,
                   buildDirSuffix, configFile, flagTable, prevRun>>

\* StringFlag.Value: the flag itself is initialized; its value is returned
Value(i) ==
    /\ Running /\ flagOps < MaxFlagOps
    /\ flagOps' = flagOps + 1
    /\ LET res == initializeFlag(flagObjects[i]) IN
        /\ FlagCall("Value", i, res)
        /\ flagObjects' = [flagObjects EXCEPT ![i] = res.flag]
    /\ UNCHANGED <<engineVars, legacyVars, cmdlineFlags, configFileFlags, flagsLocked,
                   buildDirSuffix, configFile, flagTable, prevRun>>

\* fmt.Sprintf("%s=%s", name, info.Value) for every flag of a table, in the
\* order ord in which the map is iterated
FlagStrings(table, ord) == [i \in DOMAIN ord |-> ord[i] \o <<61>> \o table[ord[i]].Value]

\* sort.Strings, strings.Join with "#", crc32.ChecksumIEEE
BuildDirHash(flagStrings) == ChecksumIEEE(Join(SortStrings(flagStrings), <<35>>))

\* fmt.Sprintf("-%08X", buildDirHash)
BuildDirSuffix(flagStrings) == <<45>> \o Hex8(BuildDirHash(flagStrings))

\* lockAndGetFlags; ord is the order in which registeredFlags is iterated,
\* ioOk tells whether writing ../FLAGS.json succeeds
lockAndGetFlags(ord, ioOk) ==
    /\ Running /\ flagPc = "registering"
    /\ flagsLocked' = TRUE
    /\ LET table == [name \in DOMAIN registeredFlags |-> FlagInfo(registeredFlags[name])]
       IN /\ flagTable' = table
          /\ buildDirSuffix' = BuildDirSuffix(FlagStrings(table, ord))
          /\ configFile' = IF ioOk
                           THEN [exists |-> TRUE,
                                 data |-> jsonMarshal([name \in DOMAIN table |->
                                                          table[name].Value])]
                           ELSE configFile
    /\ lastFlag' = [op |-> "lock", ioOk |-> ioOk]
    /\ IF ~ioOk /\ FatalExits
       THEN /\ exited' = TRUE /\ fatalMsg' = "failed to write config flag values"
            /\ flagPc' = "exit"
            /\ UNCHANGED completionsOnly
       ELSE /\ flagPc' = "locked"
            /\ UNCHANGED processVars
    /\ UNCHANGED <<engineVars, legacyVars, cmdlineFlags, configFileFlags, flagObjects,
                   registeredFlags, flagOps, prevRun>>

\* buildDirPrefix(): "/o"
buildDirPrefix == <<47, 111>>

\* A build directory without the suffix of the flags
BuildDirWithoutSuffix(suffix) == buildDirPrefix

\* buildDirPrefix() + buildDirSuffix
BuildDirOf(suffix) == buildDirPrefix \o suffix

\* buildDir()
buildDir ==
    /\ Running /\ flagOps < MaxFlagOps
    /\ flagOps' = flagOps + 1
    /\ IF ~flagsLocked /\ FatalExits
       THEN /\ exited' = TRUE
            /\ fatalMsg' = "cannot use build directory before all flag values are known"
            /\ flagPc' = "exit"
            /\ lastFlag' = [op |-> "buildDir", result |-> <<>>]
            /\ UNCHANGED completionsOnly
       ELSE /\ lastFlag' = [op |-> "buildDir", result |-> BuildDirOf(buildDirSuffix)]
            /\ UNCHANGED <<processVars, flagPc>>
    /\ UNCHANGED <<engineVars, legacyVars, cmdlineFlags, configFileFlags, flagObjects,
                   registeredFlags, flagsLocked, buildDirSuffix, configFile, flagTable,
                   prevRun>>

\* The command lines of a run that follows another: none, or a=x
NextRunArgChoices == {<<>>, <<<<97, 61, 120>>>>}

\* The generator is started again after a run that has locked its flags: the
\* package variables are initialized anew, from the command line of the new
\* run and from the ../FLAGS.json that the run before has left
StartNextRun(args, completions) ==
    /\ Running /\ flagPc = "locked" /\ lastFlag.op = "lock" /\ ~prevRun.locked
    /\ prevRun' = [locked |-> TRUE, table |-> flagTable, suffix |-> buildDirSuffix,
                   written |-> lastFlag.ioOk]
    /\ completionsOnly' = completions
    /\ cmdlineFlags' = getCmdlineFlags(args)
    /\ configFileFlags' = getConfigFileFlags(configFile)
    /\ flagObjects' = FlagDecls
    /\ registeredFlags' = EmptyMap
    /\ flagsLocked' = FALSE
    /\ buildDirSuffix' = <<>>
    /\ flagTable' = EmptyMap
    /\ flagPc' = "registering"
    /\ lastFlag' = NoFlagOp
    /\ UNCHANGED <<engineVars, legacyVars, exited, fatalMsg, configFile, flagOps>>

\* The registry of a run without flags on its command line or in its config file
FlagsInit ==
    /\ cmdlineFlags = EmptyMap
    /\ configFileFlags = EmptyMap
    /\ configFile = [exists |-> FALSE, data |-> <<>>]
    /\ flagObjects = FlagDecls
    /\ registeredFlags = EmptyMap
    /\ flagsLocked = FALSE
    /\ buildDirSuffix = <<>>
    /\ flagTable = EmptyMap
    /\ flagPc = "registering"
    /\ flagOps = 0
    /\ lastFlag = NoFlagOp
    /\ prevRun = NoRun

NextFlags ==
    \/ \E i \in DOMAIN FlagDecls : Register(i)
    \/ \E i \in DOMAIN flagObjects : Value(i)
    \/ \E ord \in Perms(DOMAIN registeredFlags), ioOk \in BOOLEAN : lockAndGetFlags(ord, ioOk)
    \/ buildDir

\* ------------------------------------------------------------------------
\* The run of the generator over its targets
\* ------------------------------------------------------------------------

EngineInit ==
    /\ pc = "main"
    /\ targetPaths = <<>>
    /\ nextTarget = 1
    /\ currentTarget = <<>>
    /\ trace = <<>>
    /\ scopes = <<>>
    /\ leafOutputs = {}
    /\ steps = <<>>
    /\ buildSteps = EmptyMap
    /\ targetRules = <<>>
    /\ dataFiles = {}
    /\ ninjaText = <<>>
    /\ outputWritten = FALSE
    /\ ncalls = 0
    /\ targetLog = <<>>
    /\ last = NoCall

ProcessInit ==
    /\ completionsOnly \in BOOLEAN
    /\ exited = FALSE
    /\ fatalMsg = ""

Init == ProcessInit /\ EngineInit /\ LegacyInit /\ FlagsInit

\* The runs of the registry: the command line and the config file are read
\* when the package is initialized
InitFlags ==
    /\ ProcessInit /\ EngineInit /\ LegacyInit
    /\ \E args \in ArgChoices : cmdlineFlags = getCmdlineFlags(args)
    /\ \E file \in ConfigFileChoices :
          /\ configFile = file
          /\ configFileFlags = getConfigFileFlags(file)
    /\ flagObjects = FlagDecls
    /\ registeredFlags = EmptyMap
    /\ flagsLocked = FALSE
    /\ buildDirSuffix = <<>>
    /\ flagTable = EmptyMap
    /\ flagPc = "registering"
    /\ flagOps = 0
    /\ lastFlag = NoFlagOp
    /\ prevRun = NoRun

Next ==
    \/ \E ord \in Perms(DOMAIN registeredFlags), ioOk \in BOOLEAN : lockAndGetFlags(ord, ioOk)
    \/ \E ord \in Perms(TargetNames) : BeginBuild(ord)
    \/ SkipBuild
    \/ HandleTargetBegin
    \/ \E step \in StepChoices : AddBuildStepWithRule(step)
    \/ \E step \in BuildStepChoices, ioOk \in BOOLEAN : AddBuildStep(step, ioOk)
    \/ \E id \in TraceLabels \ Range(trace) : WithTraceEnter(id)
    \/ WithTraceExit
    \/ \E ord \in Perms(leafOutputs) : HandleTargetEnd(ord)
    \/ \E ordR \in Perms(DOMAIN buildSteps), ordS \in Perms(DOMAIN buildSteps),
          vo \in VarOrders : RenderNinjaFile(ordR, ordS, vo)
    \/ \E ioOk \in BOOLEAN : WriteOutput(ioOk)

Spec == Init /\ [][Next]_vars

SpecLegacy == Init /\ [][NextLegacy]_vars

\* The steps of the runs that nest WithTrace calls
NestStepChoices ==
    {BuildStepWithRule(<<pa>>, <<>>, <<>>, EmptyMap, Rule1),
     BuildStepWithRule(<<pb>>, <<pa>>, <<>>, EmptyMap, Rule1)}

\* The runs of the generator whose targets nest WithTrace calls
NextTrace ==
    \/ \E ord \in Perms(DOMAIN registeredFlags), ioOk \in BOOLEAN : lockAndGetFlags(ord, ioOk)
    \/ \E ord \in Perms(TargetNames) : BeginBuild(ord)
    \/ SkipBuild
    \/ HandleTargetBegin
    \/ \E step \in NestStepChoices : AddBuildStepWithRule(step)
    \/ \E id \in NestLabels \ Range(trace) : Len(trace) < MaxDepth /\ WithTraceEnter(id)
    \/ WithTraceExit
    \/ \E ord \in Perms(leafOutputs) : HandleTargetEnd(ord)
    \/ \E ordR \in Perms(DOMAIN buildSteps), ordS \in Perms(DOMAIN buildSteps),
          vo \in VarOrders : RenderNinjaFile(ordR, ordS, vo)
    \/ \E ioOk \in BOOLEAN : WriteOutput(ioOk)

SpecTrace == Init /\ [][NextTrace]_vars

\* The fields of a step that AddBuildStepWithRule copies before it stores
\* the step
CopiedFields == {"Outs", "Ins"}

\* The fields of a BuildStepWithRule that hold a slice or a map
StepFields == {"Outs", "Ins", "OrderDeps", "Variables", "Rule.Variables"}

\* The steps of the build rule code that keeps the lists and maps it passed
CallerStepChoices ==
    {BuildStepWithRule(<<pb>>, <<pa>>, <<pa>>, (kPool :> cmd1), Rule1),
     BuildStepWithRule(<<pa>>, <<>>, <<pb>>, (kPool :> cmd1), Rule2)}

\* An assignment of the build rule code to the first element of one of its
\* slices, or to an entry of one of its maps
WriteField(step, field) ==
    CASE field = "Outs" -> [step EXCEPT !.Outs[1] = pcd]
      [] field = "Ins" -> [step EXCEPT !.Ins[1] = pcd]
      [] field = "OrderDeps" -> [step EXCEPT !.OrderDeps[1] = pcd]
      [] field = "Variables" -> [step EXCEPT !.Variables[kPool] = cmd2]
      [] field = "Rule.Variables" -> [step EXCEPT !.Rule.Variables[kDescription] = cmd2]

\* The length of the slice, or the size of the map, in a field of a step
FieldSize(step, field) ==
    CASE field = "Outs" -> Len(step.Outs)
      [] field = "Ins" -> Len(step.Ins)
      [] field = "OrderDeps" -> Len(step.OrderDeps)
      [] field = "Variables" -> Cardinality(DOMAIN step.Variables)
      [] field = "Rule.Variables" -> Cardinality(DOMAIN step.Rule.Variables)

\* The build rule code, after AddBuildStepWithRule has stored its step,
\* writes to a slice or a map it passed in.  The stored step is a copy of
\* the struct: its slices share their arrays and its maps are shared with
\* the ones passed in, except the slices that were copied.
CallerMutates(field) ==
    /\ Running /\ pc = "building"
    /\ last.op \in {"AddBuildStepWithRule", "CallerMutates"} /\ last.result = "registered"
    /\ FieldSize(last.arg, field) > 0
    /\ last' = [last EXCEPT !.op = "CallerMutates", !.arg = WriteField(@, field)]
    /\ steps' = IF field \in CopiedFields THEN steps
                ELSE [steps EXCEPT ![Len(steps)] = WriteField(@, field)]
    /\ UNCHANGED <<processVars, legacyVars, flagVars, pc, targetPaths, nextTarget,
                   currentTarget, trace, scopes, leafOutputs, buildSteps, targetRules,
                   dataFiles, ninjaText, outputWritten, ncalls, targetLog>>

\* The runs of the generator whose build rule code writes to what it passed
NextCaller ==
    \/ \E ord \in Perms(DOMAIN registeredFlags), ioOk \in BOOLEAN : lockAndGetFlags(ord, ioOk)
    \/ \E ord \in Perms(TargetNames) : BeginBuild(ord)
    \/ SkipBuild
    \/ HandleTargetBegin
    \/ \E step \in CallerStepChoices : AddBuildStepWithRule(step)
    \/ \E field \in StepFields : CallerMutates(field)
    \/ \E ord \in Perms(leafOutputs) : HandleTargetEnd(ord)
    \/ \E ordR \in Perms(DOMAIN buildSteps), ordS \in Perms(DOMAIN buildSteps),
          vo \in VarOrders : RenderNinjaFile(ordR, ordS, vo)
    \/ \E ioOk \in BOOLEAN : WriteOutput(ioOk)

SpecCaller == Init /\ [][NextCaller]_vars

SpecFlags == InitFlags /\ [][NextFlags]_vars

\* otherArgs() of the first of two runs: none, a=x, a=<byte 0xFF>, b="<, b
RerunArgChoices ==
    {<<>>,
     <<<<97, 61, 120>>>>,
     <<<<97, 61, 255>>>>,
     <<<<98, 61, 34, 60>>>>,
     <<<<98>>>>}

\* A run of the registry that another run may follow
InitRerun ==
    /\ ProcessInit /\ EngineInit /\ LegacyInit
    /\ \E args \in RerunArgChoices : cmdlineFlags = getCmdlineFlags(args)
    /\ \E file \in ConfigFileChoices :
          /\ configFile = file
          /\ configFileFlags = getConfigFileFlags(file)
    /\ flagObjects = FlagDecls
    /\ registeredFlags = EmptyMap
    /\ flagsLocked = FALSE
    /\ buildDirSuffix = <<>>
    /\ flagTable = EmptyMap
    /\ flagPc = "registering"
    /\ flagOps = 0
    /\ lastFlag = NoFlagOp
    /\ prevRun = NoRun

NextRerun ==
    \/ NextFlags
    \/ \E args \in NextRunArgChoices, completions \in BOOLEAN : StartNextRun(args, completions)

SpecRerun == InitRerun /\ [][NextRerun]_vars

\* ------------------------------------------------------------------------
\* The functions of the engine, each applied once to arguments of every shape
\* ------------------------------------------------------------------------

\* The number of traces of the steps that are serialized
MaxTraces == 12

NamedRule == BuildRule(<<114>>, (kCommand :> cmd1))

\* The steps that are compared: lists of several lengths and orders, maps
\* with several keys, with empty and non-empty values
EquivStepChoices ==
    {BuildStepWithRule(<<pa>>, i, <<>>, EmptyMap, Rule1) : i \in {<<>>, <<pa, pb>>, <<pb, pa>>}}
    \cup {BuildStepWithRule(o, <<>>, <<>>, EmptyMap, Rule1) : o \in {<<pa, pb>>, <<pb, pa>>}}
    \cup {BuildStepWithRule(<<pa>>, <<>>, <<>>, v, Rule1) :
             v \in {(kPool :> <<>>), (kDepfile :> <<>>), (kPool :> cmd1), (kDepfile :> cmd1)}}
    \cup {BuildStepWithRule(<<pa>>, <<>>, <<>>, EmptyMap, r) :
             r \in {Rule2, NamedRule, BuildRule(<<>>, (kCommand :> <<>>)),
                    BuildRule(<<>>, (kDescription :> <<>>))}}

\* A call of stepsAreEquivalent(&a, &b)
CompareSteps(a, b) ==
    /\ Running /\ last = NoCall
    /\ last' = [op |-> "stepsAreEquivalent", arg |-> <<a, b>>,
                result |-> stepsAreEquivalent(a, b)]
    /\ UNCHANGED <<processVars, legacyVars, flagVars, pc, targetPaths, nextTarget,
                   currentTarget, trace, scopes, leafOutputs, steps, buildSteps,
                   targetRules, dataFiles, ninjaText, outputWritten, ncalls, targetLog>>

\* n traces, each of one label
TracesOf(n) == [i \in 1..n |-> <<Itoa(i)>>]

\* The loop of ninjaFile over the traces of a step with n traces
WriteTraces(n) ==
    /\ Running /\ last = NoCall
    /\ last' = [op |-> "traces", arg |-> TracesOf(n), result |-> TraceLines(TracesOf(n))]
    /\ UNCHANGED <<processVars, legacyVars, flagVars, pc, targetPaths, nextTarget,
                   currentTarget, trace, scopes, leafOutputs, steps, buildSteps,
                   targetRules, dataFiles, ninjaText, outputWritten, ncalls, targetLog>>


\* The runs of the generator whose targets access flags while they are built
NextAccess ==
    \/ \E ord \in Perms(DOMAIN registeredFlags), ioOk \in BOOLEAN : lockAndGetFlags(ord, ioOk)
    \/ \E ord \in Perms(TargetNames) : BeginBuild(ord)
    \/ SkipBuild
    \/ HandleTargetBegin
    \/ \E i \in DOMAIN flagObjects : Register(i)
    \/ \E i \in DOMAIN flagObjects : Value(i)
    \/ AddBuildStepWithRule(BuildStepWithRule(<<pa>>, <<>>, <<>>, EmptyMap, Rule1))
    \/ \E ord \in Perms(leafOutputs) : HandleTargetEnd(ord)
    \/ \E ordR \in Perms(DOMAIN buildSteps), ordS \in Perms(DOMAIN buildSteps),
          vo \in VarOrders : RenderNinjaFile(ordR, ordS, vo)
    \/ \E ioOk \in BOOLEAN : WriteOutput(ioOk)

SpecAccess == Init /\ [][NextAccess]_vars

\* ------------------------------------------------------------------------
\* cc: libraries and their toolchain variants
\* ------------------------------------------------------------------------

\* Toolchains are told apart by Name(): "g" stands for the native gcc, "m"
\* for another registered toolchain; a nil Toolchain has no name
tcNative == <<103>>
tcOther == <<109>>
NoToolchain == <<>>
Toolchains == {tcNative, tcOther}

\* DefaultToolchain(): the toolchain that the flag cc-toolchain names
DefaultToolchain == tcNative

toolchainOrDefault(toolchain) ==
    IF toolchain = NoToolchain THEN DefaultToolchain ELSE toolchain

\* OutPath.WithPrefix: the path with the prefix put before its relative part
WithPrefix(p, prefix) == prefix \o p

\* A Library as the build files declare it; Deps holds the names under
\* which the Dep values are declared
Library(out, srcs, deps, toolchain) ==
    [Out |-> out, Srcs |-> srcs, Deps |-> deps, Toolchain |-> toolchain,
     userOut |-> NoPath, userToolchain |-> NoToolchain]

\* Library.CcLibrary, for a toolchain and an Out that are not nil
CcLibrary(lib, toolchain) ==
    LET l1 == IF lib.userOut = NoPath THEN [lib EXCEPT !.userOut = lib.Out] ELSE lib
        l2 == IF l1.userToolchain = NoToolchain
              THEN [l1 EXCEPT !.userToolchain =
                        IF lib.Toolchain # NoToolchain THEN lib.Toolchain
                        ELSE DefaultToolchain]
              ELSE l1
    IN IF toolchain = l2.userToolchain
       THEN [l2 EXCEPT !.Out = l2.userOut]
       ELSE [l2 EXCEPT !.Out = WithPrefix(l2.userOut, toolchain \o <<47>>),
                       !.Toolchain = toolchain]

\* The libraries whose variants are taken: with and without a toolchain of
\* their own
VariantLibChoices ==
    {Library(<<120>>, <<>>, <<>>, tc) : tc \in {NoToolchain, tcNative, tcOther}}

\* lib.CcLibrary(t1).CcLibrary(t2) and lib.CcLibrary(t2)
TakeVariants(lib, t1, t2) ==
    /\ Running /\ last = NoCall
    /\ last' = [op |-> "CcLibrary", arg |-> <<lib, t1, t2>>,
                result |-> <<CcLibrary(lib, t1), CcLibrary(CcLibrary(lib, t1), t2),
                             CcLibrary(lib, t2)>>]
    /\ UNCHANGED <<processVars, legacyVars, flagVars, pc, targetPaths, nextTarget,
                   currentTarget, trace, scopes, leafOutputs, steps, buildSteps,
                   targetRules, dataFiles, ninjaText, outputWritten, ncalls, targetLog>>


\* visited[libPath] of a Go map of ints: 0 for a path that is not a key
Mark(visited, libPath) == IF libPath \in DOMAIN visited THEN visited[libPath] ELSE 0

\* append(stack, lib): the library put behind the ones collected so far
PutLast(lib, stack) == Append(stack, lib)

\* append([]Library{lib}, *stack...)
PutFirst(lib, stack) == <<lib>> \o stack

\* The Dep values that a list of names stands for
DepValues(table, names) == [i \in DOMAIN names |-> table[names[i]]]

\* collectDepsWithToolchainRec and its loop over lib.Deps.  table holds the
\* declared Dep values by name; st holds the visited map and the stack, and
\* in fatal whether Fatal("dependency loop detected") has ended the run;
\* calls counts the calls of collectDepsWithToolchainRec.
RECURSIVE collectDepsWithToolchainRec(_, _, _, _)
RECURSIVE collectDepsLoop(_, _, _, _)
collectDepsWithToolchainRec(table, toolchain, dep, st) ==
    LET lib == CcLibrary(dep, toolchain)
        libPath == lib.Out
        st0 == [st EXCEPT !.calls = @ + 1]
    IN IF Mark(st.visited, libPath) = 2 THEN st0
       ELSE IF Mark(st.visited, libPath) = 1 THEN [st0 EXCEPT !.fatal = TRUE]
       ELSE LET st1 == [st0 EXCEPT !.visited = (libPath :> 1) @@ @]
                st2 == collectDepsLoop(table, toolchain, DepValues(table, lib.Deps), st1)
            IN IF st2.fatal THEN st2
               ELSE [st2 EXCEPT !.stack = PutFirst(lib, @),
                                !.visited = (libPath :> 2) @@ @]

collectDepsLoop(table, toolchain, deps, st) ==
    IF deps = <<>> \/ st.fatal THEN st
    ELSE collectDepsLoop(table, toolchain, Tail(deps),
                         collectDepsWithToolchainRec(table, toolchain, deps[1], st))

\* collectDepsWithToolchain
collectDepsWithToolchain(table, toolchain, deps) ==
    collectDepsLoop(table, toolchain, deps,
                    [visited |-> EmptyMap, stack |-> <<>>, fatal |-> FALSE, calls |-> 0])

\* The names of the declared libraries, and the lists of names of a
\* Deps field: every subset, in ascending order
LibNames == 1..3
LibOut(n) == <<119 + n>>
DepsChoices ==
    {<<>>, <<1>>, <<2>>, <<3>>, <<1, 2>>, <<1, 3>>, <<2, 3>>, <<1, 2, 3>>}

\* The declarations of three libraries "x", "y" and "z", of which "y" has a
\* toolchain of its own, with every choice of their Deps
LibTableChoices ==
    {[n \in LibNames |->
         Library(LibOut(n), <<>>, d[n], IF n = 2 THEN tcOther ELSE NoToolchain)] :
     d \in [LibNames -> DepsChoices]}

\* The dependencies handed to collectDepsWithToolchain
RootChoices == {<<1>>, <<2, 1>>, <<3, 2, 3>>}

\* A call of collectDepsWithToolchain in the build of a target
CollectDeps(table, toolchain, deps) ==
    /\ Running /\ ~completionsOnly /\ last = NoCall
    /\ last' = [op |-> "collectDeps",
                arg |-> [table |-> table, toolchain |-> toolchain, deps |-> deps],
                result |-> collectDepsWithToolchain(table, toolchain,
                                                    DepValues(table, deps))]
    /\ UNCHANGED <<processVars, legacyVars, flagVars, pc, targetPaths, nextTarget,
                   currentTarget, trace, scopes, leafOutputs, steps, buildSteps,
                   targetRules, dataFiles, ninjaText, outputWritten, ncalls, targetLog>>

NextFunctions ==
    \/ \E a \in EquivStepChoices, b \in EquivStepChoices : CompareSteps(a, b)
    \/ \E n \in 0..MaxTraces : WriteTraces(n)
    \/ \E lib \in VariantLibChoices, t1 \in Toolchains, t2 \in Toolchains :
          TakeVariants(lib, t1, t2)
    \/ \E table \in LibTableChoices, deps \in RootChoices, toolchain \in Toolchains :
          CollectDeps(table, toolchain, deps)

SpecFunctions == Init /\ [][NextFunctions]_vars

\* ------------------------------------------------------------------------
\* cc: Library.build on the context without build rules
\* ------------------------------------------------------------------------

\* Toolchain.StdDeps(): the toolchains of the model have none
StdDeps(toolchain) == <<>>

\* The index of the last "." of a path, 0 if it has none
RECURSIVE LastDot(_, _)
LastDot(p, i) == IF i = 0 THEN 0 ELSE IF p[i] = 46 THEN i ELSE LastDot(p, i - 1)

\* OutPath.WithExt: the path with its extension replaced
WithExt(p, ext) ==
    (IF LastDot(p, Len(p)) = 0 THEN p ELSE SubSeq(p, 1, LastDot(p, Len(p)) - 1))
    \o <<46>> \o ext

\* ObjectFile.out()
ObjectOut(src, toolchain) ==
    WithExt(WithPrefix(src, toolchainOrDefault(toolchain) \o <<47>>), <<111>>)

\* The commands that the toolchain makes for an object file and for a
\* static library: "cc" and "ar" stand for their text
ccCmd == <<99, 99>>
arCmd == <<97, 114>>

\* AddBuildStep of this context for a step with a Cmd and without Script
\* and Data
LegacyAddStep(c, step) ==
    LET c2 == LegacyDropIns(LegacyAddOuts(c, step), step)
    IN [c2 EXCEPT !.ninjaFile = @ \o LegacyStepText(c2, step), !.nextRuleID = @ + 1]

\* compileSources: ObjectFile.Build for every source
RECURSIVE compileSources(_, _, _)
compileSources(c, srcs, toolchain) ==
    IF srcs = <<>> THEN c
    ELSE LET out == ObjectOut(srcs[1], toolchain)
             step == [BuildStep(out, <<>>, TRUE, srcs[1], ccCmd, <<>>, <<>>)
                         EXCEPT !.Depfile = WithExt(out, <<100>>)]
             c1 == [c EXCEPT !.trace = Append(@, <<111, 98, 106, 58>> \o out)]
             c2 == LegacyAddStep(c1, step)
         IN compileSources([c2 EXCEPT !.trace = c.trace], Tail(srcs), toolchain)

\* A call of lib.build that has not passed its Built check yet
Frame(lib) == [lib |-> lib, deps |-> <<>>, i |-> 1, pc |-> "entry"]

\* "lib:" + lib.Out.Relative()
LibLabel(lib) == <<108, 105, 98, 58>> \o lib.Out

\* The call of Library.build that is running
Top == buildCalls[Len(buildCalls)]

\* The calls left when the running call returns
Return == SubSeq(buildCalls, 1, Len(buildCalls) - 1)

\* The Build of a target calls Build of a declared library: WithTrace
\* pushes the label and calls lib.build
LibraryBuild(n) ==
    /\ Running /\ legacyPc = "building" /\ buildCalls = <<>>
    /\ legacyCalls < MaxLegacyCalls
    /\ legacyCalls' = legacyCalls + 1
    /\ buildCalls' = <<Frame(libraries[n])>>
    /\ context' = [context EXCEPT !.trace = Append(@, LibLabel(libraries[n]))]
    /\ UNCHANGED <<processVars, engineVars, flagVars, libraries, dataDir, legacyPc,
                   varsOrder, varsNext, builtLog>>

\* Library.build from its entry to its loop over deps: the Built check,
\* which ends the call, and collectDepsWithToolchain
LibraryBuildEnter ==
    /\ Running /\ buildCalls # <<>> /\ Top.pc = "entry"
    /\ LET lib == Top.lib
           id == lib.Out
           seen == BuiltResult(context.seenOnce, id)
           c1 == [context EXCEPT !.seenOnce = SeenOnceAfter(@, id)]
           toolchain == toolchainOrDefault(lib.Toolchain)
           r == collectDepsWithToolchain(libraries, toolchain,
                                         StdDeps(toolchain) \o <<lib>>)
       IN /\ builtLog' = Append(builtLog, [id |-> id, target |-> varsOrder[varsNext],
                                           result |-> seen, depth |-> Len(buildCalls)])
          /\ IF seen
             THEN /\ buildCalls' = Return
                  /\ context' = [c1 EXCEPT !.trace = PopTrace(@)]
                  /\ UNCHANGED <<processVars, legacyPc>>
             ELSE IF r.fatal
             THEN /\ LegacyExit("dependency loop detected")
                  /\ context' = c1
                  /\ UNCHANGED buildCalls
             ELSE /\ buildCalls' = [buildCalls EXCEPT ![Len(buildCalls)] =
                                       [@ EXCEPT !.deps = r.stack, !.pc = "deps"]]
                  /\ context' = c1
                  /\ UNCHANGED <<processVars, legacyPc>>
    /\ UNCHANGED <<engineVars, flagVars, libraries, dataDir, varsOrder, varsNext,
                   legacyCalls>>

\* The loop of Library.build over deps: d.Build(ctx) for the next library
LibraryBuildDep ==
    /\ Running /\ buildCalls # <<>> /\ Top.pc = "deps" /\ Top.i <= Len(Top.deps)
    /\ buildCalls' = Append([buildCalls EXCEPT ![Len(buildCalls)].i = @ + 1],
                            Frame(Top.deps[Top.i]))
    /\ context' = [context EXCEPT !.trace = Append(@, LibLabel(Top.deps[Top.i]))]
    /\ UNCHANGED <<processVars, engineVars, flagVars, libraries, dataDir, legacyPc,
                   varsOrder, varsNext, legacyCalls, builtLog>>

\* Library.build after its loop over deps: the sources are compiled, the
\* step of the library is added, and the call returns
LibraryBuildFinish ==
    /\ Running /\ buildCalls # <<>> /\ Top.pc = "deps" /\ Top.i > Len(Top.deps)
    /\ LET lib == Top.lib
           toolchain == toolchainOrDefault(lib.Toolchain)
           c1 == compileSources(context, lib.Srcs, toolchain)
           objs == [i \in DOMAIN lib.Srcs |-> ObjectOut(lib.Srcs[i], toolchain)]
           step == [BuildStep(lib.Out, <<>>, TRUE, NoPath, arCmd, <<>>, <<>>)
                       EXCEPT !.Ins = objs]
           c2 == LegacyAddStep(c1, step)
       IN context' = [c2 EXCEPT !.trace = PopTrace(@)]
    /\ buildCalls' = Return
    /\ UNCHANGED <<processVars, engineVars, flagVars, libraries, dataDir, legacyPc,
                   varsOrder, varsNext, legacyCalls, builtLog>>

\* The Deps of the libraries "x", "y" and "z" of the runs that build
\* libraries: a library reached over two paths, two libraries that depend
\* on each other, a library that depends on itself, one dependency, a
\* loop over three libraries, a chain of three libraries
LibraryDepsChoices ==
    {<<<<2, 3>>, <<3>>, <<>>>>, <<<<2>>, <<1>>, <<>>>>,
     <<<<1>>, <<>>, <<>>>>, <<<<3>>, <<>>, <<>>>>,
     <<<<2>>, <<3>>, <<1>>>>, <<<<2>>, <<3>>, <<>>>>}

\* The declarations of the three libraries; "y" has a toolchain of its own
\* and "z" has a source "s"
LibraryDeclChoices ==
    {[n \in LibNames |->
         Library(LibOut(n), IF n = 3 THEN <<<<115>>>> ELSE <<>>, d[n],
                 IF n = 2 THEN tcOther ELSE NoToolchain)] :
     d \in LibraryDepsChoices}

InitLibrary ==
    /\ ProcessInit /\ EngineInit /\ FlagsInit /\ LegacyMainInit
    /\ libraries \in LibraryDeclChoices

\* The runs of the earlier GeneratorMain whose targets build libraries
NextLibrary ==
    \/ \E ord \in Perms(TargetNames) : LegacyBeginBuild(ord)
    \/ LegacySkipBuild
    \/ LegacyHandleTargetBegin
    \/ \E n \in LibNames : LibraryBuild(n)
    \/ LibraryBuildEnter
    \/ LibraryBuildDep
    \/ LibraryBuildFinish
    \/ \E ord \in Perms(context.leafOutputs) : LegacyHandleTargetEnd(ord)
    \/ LegacyWriteOutput

SpecLibrary == InitLibrary /\ [][NextLibrary]_vars

\* ------------------------------------------------------------------------
\* Steps that name their rules
\* ------------------------------------------------------------------------

\* A rule that has the name of NamedRule and another command
NamedRuleOther == BuildRule(<<114>>, (kCommand :> cmd2))

\* The steps of the runs whose targets name the rules of their steps: two
\* steps with the same named rule, a step whose rule has the same name and
\* other variables, and a step with an unnamed rule
RuleStepChoices ==
    {BuildStepWithRule(<<pa>>, <<>>, <<>>, EmptyMap, NamedRule),
     BuildStepWithRule(<<pb>>, <<>>, <<>>, EmptyMap, NamedRule),
     BuildStepWithRule(<<pb>>, <<>>, <<>>, EmptyMap, NamedRuleOther),
     BuildStepWithRule(<<pcd>>, <<>>, <<>>, EmptyMap, Rule1)}

\* The runs of the generator whose targets register steps with named rules
NextRules ==
    \/ \E ord \in Perms(DOMAIN registeredFlags), ioOk \in BOOLEAN : lockAndGetFlags(ord, ioOk)
    \/ \E ord \in Perms(TargetNames) : BeginBuild(ord)
    \/ SkipBuild
    \/ HandleTargetBegin
    \/ \E step \in RuleStepChoices : AddBuildStepWithRule(step)
    \/ \E ord \in Perms(leafOutputs) : HandleTargetEnd(ord)
    \/ \E ordR \in Perms(DOMAIN buildSteps), ordS \in Perms(DOMAIN buildSteps),
          vo \in VarOrders : RenderNinjaFile(ordR, ordS, vo)
    \/ \E ioOk \in BOOLEAN : WriteOutput(ioOk)

SpecRules == Init /\ [][NextRules]_vars

\* ========================================================================
\* Properties
\* ========================================================================

\* Two steps agree in inputs, outputs, rule and variables
SameContent(a, b) ==
    /\ a.Ins = b.Ins /\ a.Outs = b.Outs
    /\ a.Rule = b.Rule /\ a.Variables = b.Variables

\* C1: a call of AddBuildStepWithRule with a step whose single output is
\* already registered to a stored step with another input list ends the run
\* with the fatal "incompatible build step"; a call with a step identical to
\* the stored one in inputs, outputs, rule and variables does not exit, leaves
\* the table of outputs as it is and adds exactly one trace, the current one,
\* to the stored step and changes nothing else in the stored steps.
RedefinitionSafety ==
    [][(/\ last'.op = "AddBuildStepWithRule"
        /\ Len(last'.arg.Outs) = 1
        /\ last'.arg.Outs[1] \in DOMAIN buildSteps)
       => LET step == last'.arg
              prev == buildSteps[step.Outs[1]]
          IN /\ (steps[prev].Ins # step.Ins)
                    => /\ exited'
                       /\ fatalMsg' = "Second incompatible build step for output"
                       /\ steps' = steps /\ buildSteps' = buildSteps
             /\ SameContent(step, steps[prev])
                    => /\ ~exited'
                       /\ buildSteps' = buildSteps
                       /\ steps' = [steps EXCEPT ![prev].traces = Append(@, trace)]
                       /\ Len(steps'[prev].traces) = Len(steps[prev].traces) + 1
      ]_vars

\* C1 witness: a step was registered twice with identical content and the one
\* stored step carries exactly two traces.
TwoIdenticalRegistrations ==
    /\ last.op = "AddBuildStepWithRule" /\ last.result = "merged"
    /\ Len(last.arg.Outs) = 1
    /\ Len(steps) = 1 /\ Len(steps[1].traces) = 2
    /\ SameContent(last.arg, steps[1])
    /\ ~exited

\* C2: every output path is owned by exactly one registered step: no two
\* different steps of the table of build steps (each of which becomes one
\* build edge of the build file) declare the same output path.
OneOwnerPerOutput ==
    \A o1, o2 \in DOMAIN buildSteps :
        buildSteps[o1] # buildSteps[o2]
            => Range(steps[buildSteps[o1]].Outs) \cap Range(steps[buildSteps[o2]].Outs) = {}

\* The outputs and the inputs of the steps registered during the current target
RECURSIVE LogOuts(_)
LogOuts(log) == IF log = <<>> THEN {} ELSE Range(log[1].Outs) \cup LogOuts(Tail(log))

RECURSIVE LogIns(_)
LogIns(log) == IF log = <<>> THEN {} ELSE Range(log[1].Ins) \cup LogIns(Tail(log))

\* C3: while a target is processed, the frontier is the set of the outputs
\* registered during that target that are not an input of any step registered
\* during that target so far.
FrontierIsUnconsumedOutputs ==
    (pc = "building" /\ ~exited) => leafOutputs = LogOuts(targetLog) \ LogIns(targetLog)

\* C5: the build-file text does not depend on the order in which the table of
\* build steps and the variable maps are iterated: once every target has been
\* handled, ninjaFile yields the same text for every iteration order.
Determinism ==
    (Running /\ pc = "idle" /\ nextTarget > Len(targetPaths))
        => \A ordR \in Perms(DOMAIN buildSteps), ordS \in Perms(DOMAIN buildSteps),
              vo \in VarOrders :
                ninjaFile(ordR, ordS, vo).text
                    = ninjaFile(ordR, ordR, VarKeys).text

\* C6: a call of AddBuildStep or AddBuildStepWithRule with a step that
\* declares no output returns without error and leaves the registered steps,
\* the table of outputs, the target rules and the frontier as they were.
ZeroOutputNoOp ==
    [][(\/ /\ last'.op = "AddBuildStepWithRule"
           /\ last'.arg.Outs = <<>>
        \/ /\ last'.op = "AddBuildStep"
           /\ last'.arg.Out = NoPath /\ last'.arg.Outs = <<>>)
       => /\ ~exited'
          /\ UNCHANGED <<steps, buildSteps, targetRules, leafOutputs>>
      ]_vars

AllowListEnforced ==
    flagsLocked =>
        \A name \in DOMAIN flagTable :
            Len(flagTable[name].AllowedValues) # 0 =>
                /\ flagTable[name].Value \in Range(flagTable[name].AllowedValues)
                /\ (lastFlag.op = "lock" /\ lastFlag.ioOk)
                      => getConfigFileFlags(configFile)[name]
                            \in Range(flagTable[name].AllowedValues)

\* The value the priority command line > config file > default gives a flag
\* for which one of the three exists
PriorityValue(flag) ==
    IF flag.Name \in DOMAIN cmdlineFlags THEN cmdlineFlags[flag.Name]
    ELSE IF flag.Name \in DOMAIN configFileFlags THEN configFileFlags[flag.Name]
    ELSE flag.Default

HasSource(flag) ==
    \/ flag.Name \in DOMAIN cmdlineFlags
    \/ flag.Name \in DOMAIN configFileFlags
    \/ flag.HasDefault

\* What C8 says of a call of Register or Value apart from the case that no
\* value exists: a flag that is registered or accessed for the first time
\* gets the value of the priority command line > config file > default; a
\* flag that has its value keeps it, and the call resolves and registers nothing.
ResolvedByPriorityOnce ==
    LET call == lastFlag' IN
    IF call.before.isInitialized
    THEN /\ call.after = call.before
         /\ registeredFlags' = registeredFlags
         /\ ~exited'
    ELSE (HasSource(call.before) /\ ~exited')
            => /\ call.after.value = PriorityValue(call.before)
               /\ registeredFlags'[call.before.Name] = call.after

OtherValues == {<<>>, vx, vhash}

\* C9: a run whose flag table differs from this run's in the value of at
\* least one registered flag has another build-directory suffix.
HashNamespacing ==
    (flagsLocked /\ DOMAIN flagTable # {}) =>
        \A other \in [DOMAIN flagTable -> OtherValues] :
            (\E name \in DOMAIN flagTable : other[name] # flagTable[name].Value)
                => BuildDirSuffix(FlagStrings(
                        [name \in DOMAIN flagTable |-> [Value |-> other[name]]],
                        CHOOSE ord \in Perms(DOMAIN flagTable) : TRUE))
                   # buildDirSuffix

\* C10: the build-directory suffix depends only on the set of name=value
\* pairs: whatever the order in which the registered flags are iterated,
\* lockAndGetFlags computes the suffix it has stored.
OrderIndependentHash ==
    flagsLocked =>
        \A ord \in Perms(DOMAIN flagTable) :
            BuildDirSuffix(FlagStrings(flagTable, ord)) = buildDirSuffix

\* C10 witness: the flags are locked with two flags registered.
LockedWithTwoFlags ==
    /\ flagsLocked /\ lastFlag.op = "lock"
    /\ Cardinality(DOMAIN flagTable) = 2
    /\ Len(buildDirSuffix) = 9

\* A call of Register or Value on a flag that was not initialized before
FirstAccess(call) == call.op \in {"Register", "Value"} /\ ~call.before.isInitialized

\* A call of Register or Value on a flag that has been initialized
LaterAccess(call) == call.op \in {"Register", "Value"} /\ call.before.isInitialized

TableValues(table) == [name \in DOMAIN table |-> table[name].Value]

\* What C13 says of the lock: the config file that has been written maps
\* every registered flag to its value
PersistedAtLock ==
    (lastFlag.op = "lock" /\ lastFlag.ioOk)
        => getConfigFileFlags(configFile) = TableValues(flagTable)

\* What C13 says of the run that follows: without command-line flags and with
\* the same flags registered, every flag has the value it had in the run
\* before, and the build-directory suffix is the same
SameInNextRun ==
    (/\ prevRun.locked /\ prevRun.written
     /\ flagsLocked /\ cmdlineFlags = EmptyMap
     /\ DOMAIN flagTable = DOMAIN prevRun.table)
        => /\ TableValues(flagTable) = TableValues(prevRun.table)
           /\ buildDirSuffix = prevRun.suffix

\* C13: the config file written at the lock maps every registered flag to its
\* value, and a following run without command-line flags that registers the
\* same flags resolves every flag to the value of the run before and computes
\* the same build-directory suffix.
ConfigRoundTrip == PersistedAtLock /\ SameInNextRun

\* The labels of the WithTrace calls that are open, outermost first
OpenLabels == [k \in DOMAIN scopes |-> scopes[k].id]

\* What C14 says of every state: inside every open WithTrace call the trace
\* begins with the trace at the call's entry followed by the call's label, the
\* innermost call's label is the last element, and outside of handleTarget
\* the trace is empty.
TraceInsideScopes ==
    /\ \A k \in DOMAIN scopes :
          /\ k <= Len(trace)
          /\ SubSeq(trace, 1, k) = Append(scopes[k].entry, scopes[k].id)
    /\ scopes # <<>> => trace = Append(scopes[Len(scopes)].entry, scopes[Len(scopes)].id)
    /\ pc \in {"main", "idle", "serialize", "done"} => trace = <<>> /\ scopes = <<>>

\* What C14 says of every step: a WithTrace call that returns leaves the trace
\* it found at its entry, and a build step that is registered or merged gets
\* the labels of the open calls as its last trace, the first of them the label
\* of the target that is handled.
TraceAcrossSteps ==
    /\ Len(scopes') < Len(scopes) => trace' = scopes[Len(scopes)].entry
    /\ (ncalls' # ncalls /\ last'.result \in {"registered", "merged"})
          => LET step == targetLog'[Len(targetLog')]
                 stored == steps'[buildSteps'[step.Outs[1]]]
                 recorded == stored.traces[Len(stored.traces)]
             IN /\ recorded = OpenLabels
                /\ recorded = trace
                /\ recorded[1] = TargetLabel(currentTarget)

\* C14: for any nesting of WithTrace calls the trace inside the call is the
\* trace at entry with the label appended, and the trace after the call is the
\* trace at entry; so the trace is empty between two targets, and the trace
\* recorded on a registered step lists the labels of the enclosing calls,
\* outermost first, beginning with the label of the target being handled.
WithTraceScoping == []TraceInsideScopes /\ [][TraceAcrossSteps]_vars

\* C14 witness: the first target has been handled and the trace is empty
\* again; a step of it was registered inside two nested WithTrace calls.
NestedTraceRecordedAndClosed ==
    /\ pc = "idle" /\ nextTarget = 2 /\ trace = <<>>
    /\ \E i \in DOMAIN steps :
          /\ Len(steps[i].traces[1]) = 3
          /\ steps[i].traces[1][1] = TargetLabel(targetPaths[1])

Phony == <<95, 95, 112, 104, 111, 110, 121, 95, 95>>     \* "__phony__"
Console == <<99, 111, 110, 115, 111, 108, 101>>          \* "console"
RunSuffix == <<35, 114, 117, 110>>                       \* "#run"
TestSuffix == <<35, 116, 101, 115, 116>>                 \* "#test"

\* The targets and inputs of the edges C15 expects handleTarget to append for
\* the target t with the frontier leaf (the context without build rules knows
\* no testable targets)
ExpectedEdges(t, leaf, testable) ==
    IF ~IsUpper(Base(t)) THEN <<>>
    ELSE <<[Target |-> t,
            Ins |-> SortStrings(MapSeq(ninjaEscape, CHOOSE ord \in Perms(leaf) : TRUE)),
            console |-> FALSE]>>
         \o (IF Runnable(t)
             THEN <<[Target |-> t \o RunSuffix, Ins |-> <<t>>, console |-> TRUE]>> ELSE <<>>)
         \o (IF testable
             THEN <<[Target |-> t \o TestSuffix, Ins |-> <<t>>, console |-> TRUE]>> ELSE <<>>)

\* The edges among target rules
RuleEdges(rules) ==
    [i \in DOMAIN rules |->
        [Target |-> rules[i].Target, Ins |-> rules[i].Ins,
         console |-> MapGet(rules[i].Variables, kPool) = Console]]

\* The edges in a piece of build-file text, "__phony__" left aside; an edge
\* uses the console pool if the rule written before it has that variable
RECURSIVE TextEdges(_, _)
TextEdges(text, console) ==
    IF text = <<>> THEN <<>>
    ELSE LET l == text[1] IN
         IF l[1] = "build"
         THEN <<[Target |-> l[2][1],
                 Ins |-> SelectSeq(l[4], LAMBDA in : in # Phony),
                 console |-> console]>> \o TextEdges(Tail(text), FALSE)
         ELSE IF l[1] = "rule" THEN TextEdges(Tail(text), FALSE)
         ELSE IF l[1] = "  var" /\ l[2] = kPool /\ l[3] = Console
         THEN TextEdges(Tail(text), TRUE)
         ELSE TextEdges(Tail(text), console)

WithDependencies(edges, deps) ==
    [i \in DOMAIN edges |-> IF i = 1 THEN [edges[i] EXCEPT !.Ins = @ \o deps] ELSE edges[i]]

HandledBefore(order, next) == {order[k] : k \in 1..(next - 1)}

\* While the target `current` is handled, every target with a smaller name
\* has been handled, and `current` is handled for the first time
InAscendingOrder(order, next) ==
    /\ next \in DOMAIN order
    /\ \A t \in TargetNames : LessStr(t, order[next]) => t \in HandledBefore(order, next)
    /\ order[next] \notin HandledBefore(order, next)

\* C16: the targets are handled one at a time in ascending order of their
\* names: while handleTarget runs for a target, handleTarget has returned for
\* every target with a smaller name, and it has not run for this target
\* before; when the loop is over every target has been handled.
SortedTargetOrder ==
    /\ pc = "building" => InAscendingOrder(targetPaths, nextTarget)
    /\ pc \in {"serialize", "done"} /\ ~completionsOnly
          => HandledBefore(targetPaths, nextTarget) = TargetNames
    /\ legacyPc = "building" => InAscendingOrder(varsOrder, varsNext)
    /\ legacyPc \in {"serialize", "done"} /\ ~completionsOnly
          => HandledBefore(varsOrder, varsNext) = TargetNames

\* The diagnostic of the first Fatal call that initializeFlag makes for a flag
\* that is not initialized ("" if it makes none)
FirstFlagError(flag) ==
    IF flagsLocked THEN "flag accessed, but not reistered"
    ELSE IF flag.Name \in DOMAIN registeredFlags THEN "multiple flags with name"
    ELSE IF ~HasSource(flag) THEN "flag has no value"
    ELSE IF /\ Len(flag.AllowedValues) # 0
            /\ PriorityValue(flag) \notin Range(flag.AllowedValues)
    THEN "flag has unallowed value"
    ELSE ""

\* The diagnostic of the first Fatal call made by the step that is taken
\* ("" if it makes none)
FatalCalled ==
    IF FirstAccess(lastFlag') /\ flagOps' # flagOps THEN FirstFlagError(lastFlag'.before)
    ELSE IF lastFlag'.op = "lock" /\ ~flagsLocked /\ flagsLocked' /\ ~lastFlag'.ioOk
    THEN "failed to write config flag values"
    ELSE IF lastFlag'.op = "buildDir" /\ flagOps' # flagOps /\ ~flagsLocked
    THEN "cannot use build directory before all flag values are known"
    ELSE ""

BuildFileComplete ==
    /\ HandledBefore(targetPaths, nextTarget) = TargetNames
    /\ nextTarget = Len(targetPaths) + 1
    /\ trace = <<>>
    /\ ninjaText # <<>>

\* Fatal has been called while the flags were locked
FatalDuringLock == lastFlag.op = "lock" /\ ~lastFlag.ioOk

BuildDirCalled == lastFlag'.op = "buildDir" /\ flagOps' # flagOps

CallerWrote == last'.op = "CallerMutates" /\ last'.arg # last.arg

\* C20: no write of the caller to the lists and maps it passed to
\* AddBuildStepWithRule changes a registered step or the build file that
\* is generated from the registered steps.
RegisteredStepsOutOfReach ==
    [][CallerWrote
        => /\ steps' = steps
           /\ \A ordR \in Perms(DOMAIN buildSteps), vo \in VarOrders :
                 ninjaFile(ordR, ordR, vo)'.text = ninjaFile(ordR, ordR, vo).text
      ]_vars

\* C20, the part that the copies of context.go:247-250 achieve: a write to
\* Outs or Ins changes no registered step.
CopiedListsOutOfReach ==
    [][CallerWrote /\ last'.arg.OrderDeps = last.arg.OrderDeps
                   /\ last'.arg.Variables = last.arg.Variables
                   /\ last'.arg.Rule = last.arg.Rule
        => steps' = steps]_vars

\* Same keys with the same values
SameMap(m, n) == DOMAIN m = DOMAIN n /\ \A k \in DOMAIN m : m[k] = n[k]

\* The fields that tell two steps apart
SameFields(a, b) ==
    /\ a.Ins = b.Ins
    /\ a.Outs = b.Outs
    /\ SameMap(a.Variables, b.Variables)
    /\ a.Rule.Name = b.Rule.Name
    /\ SameMap(a.Rule.Variables, b.Rule.Variables)

\* C21: stepsAreEquivalent accepts two steps exactly when their inputs,
\* outputs, variables, rule names and rule variables are equal, and its
\* verdict does not depend on which of the two steps is passed first.
EquivalenceIsEquality ==
    last.op = "stepsAreEquivalent"
    => LET a == last.arg[1]
           b == last.arg[2]
       IN /\ (last.result = "") <=> SameFields(a, b)
          /\ (last.result = "") <=> (stepsAreEquivalent(b, a) = "")

\* C21, the part that holds: steps with the same fields are accepted
EqualStepsAccepted ==
    last.op = "stepsAreEquivalent" /\ SameFields(last.arg[1], last.arg[2])
    => last.result = ""

\* The lines of a text that start with the given word
CountLines(lines, word) == Cardinality({i \in DOMAIN lines : lines[i][1] = word})

\* C22: at most 10 trace comments per edge; with more than 10 traces one
\* further comment gives the number of traces that were not written, and
\* with 10 or fewer traces all are written and there is no such comment.
TraceCommentsLimited ==
    last.op = "traces"
    => LET n == Len(last.arg)
           written == CountLines(last.result, "# trace")
       IN /\ written <= 10
          /\ IF n > 10
             THEN /\ CountLines(last.result, "# skipped") = 1
                  /\ last.result[Len(last.result)] = <<"# skipped", Itoa(n - written)>>
             ELSE /\ written = n
                  /\ CountLines(last.result, "# skipped") = 0

\* C22, the part that holds: ten or fewer traces are all written, without
\* a further comment
FewTracesAllWritten ==
    last.op = "traces" /\ Len(last.arg) <= 10
    => /\ CountLines(last.result, "# trace") = Len(last.arg)
       /\ CountLines(last.result, "# skipped") = 0

\* C23: the registry is locked before the first target is built and stays
\* locked; the first access of a flag while a target is built ends the run
\* with a fatal and registers nothing.
LockedWhileBuilding ==
    /\ [](pc = "building" => flagsLocked)
    /\ [][(flagsLocked => flagsLocked')
          /\ (pc = "building" /\ flagOps' # flagOps /\ FirstAccess(lastFlag')
                => /\ exited'
                   /\ fatalMsg' = "flag accessed, but not reistered"
                   /\ registeredFlags' = registeredFlags
                   /\ ~lastFlag'.after.isInitialized)
         ]_vars

\* C23 witness: a target's build has accessed a flag for the first time and
\* the run has ended with the fatal of the locked registry.
FirstAccessInsideBuildFatal ==
    /\ pc = "building" /\ flagsLocked /\ exited
    /\ FirstAccess(lastFlag)
    /\ lastFlag.fatal = "flag accessed, but not reistered"
    /\ lastFlag.before.Name \notin DOMAIN registeredFlags

\* The toolchain a library is built with
EffectiveToolchain(lib) == toolchainOrDefault(lib.Toolchain)

\* The Out that a variant of a library is to have under a toolchain
VariantOut(lib, t) ==
    IF t = EffectiveToolchain(lib) THEN lib.Out ELSE t \o <<47>> \o lib.Out

\* C26: L.CcLibrary(t) has the user's Out when t has the name of L's user
\* toolchain and the Out prefixed with the name of t otherwise, and is built
\* with t; L.CcLibrary(t1).CcLibrary(t2) has the Out and the toolchain of
\* L.CcLibrary(t2); variants for two toolchains never share an Out.
VariantDependsOnUserFieldsOnly ==
    last.op = "CcLibrary"
    => LET lib == last.arg[1]
           t1 == last.arg[2]
           t2 == last.arg[3]
           v1 == last.result[1]
           v12 == last.result[2]
           v2 == last.result[3]
       IN /\ v1.Out = VariantOut(lib, t1)
          /\ EffectiveToolchain(v1) = t1
          /\ v12.Out = v2.Out
          /\ EffectiveToolchain(v12) = EffectiveToolchain(v2)
          /\ t1 # t2 => v1.Out # v2.Out

\* C26, the part that holds: the Out and the toolchain of a variant taken
\* from a library as declared, and the Out of a variant of a variant
VariantOfDeclaredLibrary ==
    last.op = "CcLibrary"
    => LET lib == last.arg[1]
           v1 == last.result[1]
       IN /\ v1.Out = VariantOut(lib, last.arg[2])
          /\ EffectiveToolchain(v1) = last.arg[2]
          /\ last.result[2].Out = last.result[3].Out
          /\ last.arg[2] # last.arg[3] => v1.Out # last.result[3].Out

\* The libraries that the library n depends on, directly or transitively
RECURSIVE DependsOn(_, _, _)
DependsOn(table, from, k) ==
    IF k = 0 THEN from
    ELSE DependsOn(table, from \cup UNION {Range(table[n].Deps) : n \in from}, k - 1)
Descendants(table, n) == DependsOn(table, Range(table[n].Deps), Cardinality(DOMAIN table))

\* The libraries reachable from a list of dependencies
Reachable(table, deps) == DependsOn(table, Range(deps), Cardinality(DOMAIN table))

\* A library that is reachable from the dependencies depends on itself
HasLoop(table, deps) == \E n \in Reachable(table, deps) : n \in Descendants(table, n)

\* The positions of a library in the list that was returned
Positions(stack, path) == {i \in DOMAIN stack : stack[i].Out = path}

\* C29: for an acyclic graph collectDepsWithToolchain returns every library
\* that is reachable from the dependencies exactly once, and every library
\* before the libraries it depends on.
DepsCompleteAndOrdered ==
    last.op = "collectDeps" /\ ~HasLoop(last.arg.table, last.arg.deps)
    => LET table == last.arg.table
           t == last.arg.toolchain
           stack == last.result.stack
           reach == Reachable(table, last.arg.deps)
           path(n) == CcLibrary(table[n], t).Out
       IN /\ ~last.result.fatal
          /\ Len(stack) = Cardinality(reach)
          /\ \A n \in reach : Cardinality(Positions(stack, path(n))) = 1
          /\ \A n \in reach : \A d \in Descendants(table, n) :
                \A i \in Positions(stack, path(n)), j \in Positions(stack, path(d)) : i < j
          /\ \A i \in DOMAIN stack : stack[i] = CcLibrary(table[CHOOSE n \in reach :
                                                     path(n) = stack[i].Out], t)

\* C29 witness: a library that is reached over two paths has been returned
\* once, behind the two libraries that depend on it.
DiamondCollected ==
    /\ last.op = "collectDeps" /\ ~HasLoop(last.arg.table, last.arg.deps)
    /\ last.arg.deps = <<1>>
    /\ last.arg.table[1].Deps = <<2, 3>>
    /\ last.arg.table[2].Deps = <<3>>
    /\ last.arg.table[3].Deps = <<>>
    /\ Len(last.result.stack) = 3
    /\ last.result.stack[3].Out = CcLibrary(last.arg.table[3], last.arg.toolchain).Out

\* The number of times the body of Library.build has run past its Built
\* check for an output path
BodyRuns(id) == Cardinality({i \in DOMAIN builtLog : builtLog[i].id = id /\ ~builtLog[i].result})

\* The number of edges of the build file that produce a path
EdgesProducing(id) ==
    Cardinality({i \in DOMAIN context.ninjaFile :
                    /\ context.ninjaFile[i][1] = "build"
                    /\ ninjaEscape(id) \in Range(context.ninjaFile[i][2])})

\* C24: however often and from whatever targets a library is reached, the
\* body of Library.build runs at most once for its output path, and the
\* build file holds exactly one edge that produces the output of a library
\* that was reached.
LibraryBuiltOnce ==
    \A i \in DOMAIN builtLog :
        LET id == builtLog[i].id IN
        /\ BodyRuns(id) = 1
        /\ EdgesProducing(id) <= 1
        /\ (legacyPc = "done" => EdgesProducing(id) = 1)

\* C24 witness: the run has ended, and a library that two targets have
\* reached, one of them over two paths, has one edge.
LibraryReachedOftenHasOneEdge ==
    /\ legacyPc = "done"
    /\ \E id \in {builtLog[i].id : i \in DOMAIN builtLog} :
          /\ Cardinality({i \in DOMAIN builtLog : builtLog[i].id = id}) >= 3
          /\ Cardinality({builtLog[i].target : i \in {j \in DOMAIN builtLog :
                                                        builtLog[j].id = id}}) = 2
          /\ EdgesProducing(id) = 1

\* The declared libraries whose Build the target t has called itself
BuiltByTarget(t) ==
    {n \in DOMAIN libraries :
        \E i \in DOMAIN builtLog :
            /\ builtLog[i].target = t /\ builtLog[i].depth = 1
            /\ builtLog[i].id = libraries[n].Out}

\* The outputs that are left in the frontier when the libraries that t
\* builds are built in a context that has built nothing: the outputs of the
\* libraries and of all libraries they depend on
OutputsOfOwnBuild(t) ==
    UNION {{v.Out : v \in Range(collectDepsWithToolchain(libraries,
                                    toolchainOrDefault(libraries[n].Toolchain),
                                    <<libraries[n]>>).stack)} :
           n \in BuiltByTarget(t)}

\* C28: the inputs of the aggregation edge of an exported target, and the
\* outputs it prints, are those of its own build, whether or not a target
\* handled before it has built the same libraries.
AggregationIndependentOfEarlierTargets ==
    [][legacyPc = "building" /\ legacyPc' = "idle" /\ IsUpper(Base(varsOrder[varsNext]))
        => \E ord \in Perms(OutputsOfOwnBuild(varsOrder[varsNext])) :
              context'.ninjaFile =
                 context.ninjaFile \o LegacyTargetText(context, varsOrder[varsNext], ord)
      ]_vars

\* C28, the part that holds: the edge and the printed outputs of an exported
\* target that is handled before every other target
AggregationOfFirstTarget ==
    [][legacyPc = "building" /\ legacyPc' = "idle" /\ IsUpper(Base(varsOrder[varsNext]))
       /\ varsNext = 1
        => \E ord \in Perms(OutputsOfOwnBuild(varsOrder[varsNext])) :
              context'.ninjaFile =
                 context.ninjaFile \o LegacyTargetText(context, varsOrder[varsNext], ord)
      ]_vars

\* The name under which a library, or the library a variant was taken
\* from, is declared
DeclaredName(lib) ==
    CHOOSE n \in DOMAIN libraries :
        libraries[n].Out = (IF lib.userOut = NoPath THEN lib.Out ELSE lib.userOut)

\* A library depends on itself, or on a library that depends on itself
LoopBelow(lib) == HasLoop(libraries, <<DeclaredName(lib)>>)

\* The call of Library.build that is running is for the output of a call
\* that has not returned
ReEntrant ==
    \E i \in 1..(Len(buildCalls) - 1) : buildCalls[i].lib.Out = Top.lib.Out

\* The run ends in Fatal("dependency loop detected") with this step
LoopFatal == ~exited /\ exited' /\ fatalMsg' = "dependency loop detected"

\* The outputs of the declared libraries and of their variants
PossibleOuts ==
    {libraries[n].Out : n \in DOMAIN libraries}
    \cup {CcLibrary(libraries[n], t).Out : n \in DOMAIN libraries, t \in Toolchains}

\* What is left to do for the calls of Library.build that have not
\* returned: a call before its Built check counts 1, a call in its loop
\* over deps counts 1 and 2 for each of the deps not built yet
RECURSIVE WorkLeft(_)
WorkLeft(calls) ==
    IF calls = <<>> THEN 0
    ELSE LET f == calls[1]
         IN (IF f.pc = "entry" THEN 1 ELSE 1 + 2 * (Len(f.deps) - f.i + 1))
            + WorkLeft(Tail(calls))

\* A number that bounds the steps the running calls of Library.build can
\* still take: every output that Built has not seen yet counts for the
\* longest loop over deps that a call can start
BuildVariant ==
    (2 * Cardinality(DOMAIN libraries) + 1)
        * Cardinality(PossibleOuts \ context.seenOnce)
    + WorkLeft(buildCalls)

\* The number of calls of collectDepsWithToolchainRec is at most the
\* number of dependencies handed in and declared
RECURSIVE DepsDeclared(_)
DepsDeclared(n) ==
    IF n = 0 THEN 0 ELSE Len(libraries[n].Deps) + DepsDeclared(n - 1)

\* Library.build and the collectDepsWithToolchain it calls: a loop among
\* the dependencies is fatal, no other graph is, the calls of the traversal
\* are bounded, and the call that Library.build makes for the library
\* itself returns at its Built check
LoopIsFatalStep ==
    /\ buildCalls # <<>> /\ Top.pc = "entry" /\ ~ReEntrant
       /\ ~BuiltResult(context.seenOnce, Top.lib.Out)
         => /\ LoopFatal <=> LoopBelow(Top.lib)
            /\ collectDepsWithToolchain(libraries, toolchainOrDefault(Top.lib.Toolchain),
                                        <<Top.lib>>).calls
                  <= 1 + DepsDeclared(Cardinality(DOMAIN libraries))
    /\ buildCalls # <<>> /\ Top.pc = "entry" /\ ReEntrant
         => ~exited' /\ buildCalls' = Return
    /\ buildCalls # <<>> /\ exited' => LoopFatal /\ Top.pc = "entry"

\* Every step of a call of Library.build that does not end the run lowers
\* the variant, which is never negative
VariantDecreases ==
    buildCalls # <<>> /\ ~exited' => BuildVariant' < BuildVariant /\ BuildVariant' >= 0

\* C30: collectDepsWithToolchain ends for every graph, in the fatal error
\* "dependency loop detected" when a loop is reachable and without it when
\* none is, and every call of Library.build returns or ends the run after
\* a bounded number of steps, although the library is among its own
\* dependencies: Built stops the call Library.build makes for the library
\* itself.
LibraryBuildTerminates == [][LoopIsFatalStep /\ VariantDecreases]_vars

\* C30 witness: a library without a loop was built, the call of its build
\* for the library itself returned at the Built check, and the build of a
\* library on a loop has then ended the run.
LoopFatalAfterReEntrantReturn ==
    /\ exited /\ fatalMsg = "dependency loop detected"
    /\ \E i \in DOMAIN builtLog :
          /\ i + 1 \in DOMAIN builtLog
          /\ builtLog[i].depth = 1 /\ ~builtLog[i].result
          /\ builtLog[i + 1].depth = 2 /\ builtLog[i + 1].result
          /\ builtLog[i + 1].id = builtLog[i].id

\* The step steps[i] was handed to the context while the target with the
\* label `label` was processed: one of its traces starts with the label
RegisteredDuring(i, label) ==
    \E k \in DOMAIN steps[i].traces :
        steps[i].traces[k] # <<>> /\ steps[i].traces[k][1] = label

\* The step steps[i] was handed to the context while a target other than
\* the current one was processed
RegisteredEarlier(i) ==
    \E k \in DOMAIN steps[i].traces :
        steps[i].traces[k] # <<>> /\ steps[i].traces[k][1] # TargetLabel(currentTarget)

\* The frontier holds outputs of the steps handed to the context in the
\* build of the current target only
FrontierWithinOwnBuild ==
    (pc = "building" /\ ~exited) => leafOutputs \subseteq LogOuts(targetLog)

\* C25: every target starts with an empty frontier, and an output that a
\* step registered for an earlier target produces is in the frontier of a
\* later target only when that step was handed to the context again, as an
\* equivalent step, in the build of the later target.
FrontierFreeOfEarlierTargets ==
    (pc = "building" /\ ~exited)
        => /\ leafOutputs \subseteq LogOuts(targetLog)
           /\ \A o \in leafOutputs : \A i \in DOMAIN steps :
                 o \in Range(steps[i].Outs) /\ RegisteredEarlier(i)
                    => RegisteredDuring(i, TargetLabel(currentTarget))

\* C25, the part that holds: every target starts with an empty frontier, the
\* frontier holds outputs of steps handed to the context in the build of
\* the current target only, and the step that the table of build steps
\* names for an output of the frontier was handed to the context in that
\* build.
FrontierOwnersOfOwnBuild ==
    (pc = "building" /\ ~exited)
        => /\ leafOutputs \subseteq LogOuts(targetLog)
           /\ \A o \in leafOutputs :
                 RegisteredDuring(buildSteps[o], TargetLabel(currentTarget))

\* The variables written in the lines of the text from line i on, up to
\* the first line that is not a variable
RECURSIVE VarsAfter(_, _)
VarsAfter(text, i) ==
    IF i > Len(text) \/ text[i][1] # "  var" THEN {}
    ELSE {<<text[i][2], text[i][3]>>} \cup VarsAfter(text, i + 1)

\* The entries of a map of variables
MapPairs(m) == {<<k, m[k]>> : k \in DOMAIN m}

\* The build file has an edge for the step, and the rule that the edge
\* names has a block with the variables vs
EdgeWithRule(text, step, vs) ==
    \E i \in DOMAIN text :
        /\ text[i][1] = "build" /\ Len(text[i]) = 5
        /\ text[i][2] = MapSeq(ninjaEscape, step.Outs)
        /\ \E j \in DOMAIN text :
              text[j] = <<"rule", text[i][3]>> /\ VarsAfter(text, j + 1) = vs

\* C27: in the build file every build edge names a rule block that is in
\* the file and has the variables of the rule its step was registered
\* with, so that two steps with the same rule name have the same rule
\* variables whenever a build file is made.
EdgesRunTheirOwnRule ==
    (pc \in {"serialize", "done"} /\ ~exited)
        => \A o \in DOMAIN buildSteps :
              EdgeWithRule(ninjaText, steps[buildSteps[o]],
                           MapPairs(steps[buildSteps[o]].Rule.Variables))

\* C27, the part that holds: every build edge names a rule block that is
\* in the file; the block has the variables of the rule of one of the
\* steps that were registered with the name, and of the step itself when no
\* other step was registered with the name and other variables.
EdgesRunARuleOfTheirName ==
    (pc \in {"serialize", "done"} /\ ~exited)
        => \A o \in DOMAIN buildSteps :
              LET step == steps[buildSteps[o]]
                  same == {i \in DOMAIN steps : steps[i].Rule.Name = step.Rule.Name}
              IN /\ \E i \in same :
                       EdgeWithRule(ninjaText, step, MapPairs(steps[i].Rule.Variables))
                 /\ (\A i \in same : steps[i].Rule.Variables = step.Rule.Variables)
                       => EdgeWithRule(ninjaText, step, MapPairs(step.Rule.Variables))

====
